---- MODULE Spec2Model ----
(***************************************************************************)
(* Identity and session core of mc-api (src/src/services/auth_service.py)  *)
(* together with the stores it drives: the relational tables behind the    *)
(* repositories, the per-request database transaction of get_db, the Redis *)
(* cache of OAuth states, the JWT client and the token guards of deps.py.  *)
(*                                                                         *)
(* Every request runs in its own process p.  A request is a sequence of    *)
(* steps; a step ends where the handler awaits a statement that reads or   *)
(* writes state other requests can change.  Statements executed on the     *)
(* request's AsyncSession are pending in txn[p] until a db.commit(), reads *)
(* see the committed tables plus the request's own pending writes (READ    *)
(* COMMITTED).  An exception ends the request in the step that raises it:  *)
(* get_db rolls the pending writes back and the caller gets the error; an  *)
(* exception that is not an HTTPException (AttributeError, TypeError,      *)
(* pydantic's ValidationError, IntegrityError) is answered with 500.       *)
(*                                                                         *)
(* The handlers are the ones of the sources as they run: a call that       *)
(* raises on the arguments the service passes ends the request there, and  *)
(* the lines after it are not part of any step.                            *)
(***************************************************************************)
EXTENDS Integers, Sequences, FiniteSets, TLC

\* ---------------------------------------------------------------- bounds
MaxUsers == 2
MaxCodes == 4
MaxStates == 2

\* ------------------------------------------------------ program constants
ACCESS_TOKEN_EXPIRE_MINUTES == 30
REFRESH_TOKEN_EXPIRE_DAYS == 30
SESSION_EXPIRE_DAYS == 30
VERIFICATION_CODE_EXPIRE_MINUTES == 15
OAUTH_STATE_EXPIRE_MINUTES == 10
MinutesPerDay == 1440

\* ------------------------------------------------------------ input sets
Procs == {1, 2}
Emails == {"a@x.com", "b@x.com"}
Passwords == {"Abcdef1!", "Zyxwvu9#"}
CodeValues == {"111111", "222222"}
OAuthRoles == {"careseeker", "caregiver"}
RoleLists == {<<>>, <<"careseeker">>, <<"caregiver", "caregiver">>}
Providers == {"google", "apple"}
ProviderUserIds == {"g-1", "g-2"}

\* rows seeded by lifespan()
SeededRoles ==
  { [id |-> 1, name |-> "admin"],
    [id |-> 2, name |-> "careseeker"],
    [id |-> 3, name |-> "caregiver"] }

VERIFY_EMAIL == "verify_email"
FORGOT_PASSWORD == "forgot_password"

VARIABLES
  db,        \* committed tables: user, account, role, user_to_role, session,
             \* verification_code
  cache,     \* Redis: set of [key, expires]
  now,       \* wall clock, minutes
  nextId,    \* next primary key / random token per table
  pc,        \* position of each request
  req,       \* arguments of each request
  loc,       \* local variables of each request
  txn,       \* statements executed on the request's session and not yet committed
  resp,      \* outcome of the last request of each process
  outbox,    \* emails handed to the sender
  issued,    \* tokens clients hold
  spent      \* single-use artifacts that were used up: <<"code", token>> of a
             \* verification code a verify/reset request succeeded with,
             \* <<"session", id>> of a signed-out session, <<"state", s>> of an
             \* OAuth state a callback accepted, <<"email", e>> of an email
             \* whose second insert the user table rejected

vars == <<db, cache, now, nextId, pc, req, loc, txn, resp, outbox, issued, spent>>

\* ------------------------------------------------------------ the tables
Merge(r, s) == [f \in DOMAIN r |-> IF f \in DOMAIN s THEN s[f] ELSE r[f]]

\* the tables whose user_id column is a foreign key to user.id with
\* ON DELETE CASCADE
UserChildren == {"account", "user_to_role", "session", "verification_code"}

\* one statement applied to the tables.  With the rows of the user table
\* go, by the ON DELETE CASCADE of their foreign keys, the accounts,
\* memberships, sessions and verification codes of these users.
ApplyOp(d, w) ==
  CASE w.k = "insert" -> [d EXCEPT ![w.t] = @ \cup {w.row}]
    [] w.k = "delete" /\ w.t = "user" ->
         [t \in DOMAIN d |->
            IF t = "user" THEN {r \in d[t] : r.id \notin w.ids}
            ELSE IF t \in UserChildren THEN {r \in d[t] : r.user_id \notin w.ids}
            ELSE d[t]]
    [] w.k = "delete" /\ w.t # "user" ->
         [d EXCEPT ![w.t] = {r \in @ : r.id \notin w.ids}]
    [] w.k = "update" ->
         [d EXCEPT ![w.t] = {IF r.id = w.id THEN Merge(r, w.set) ELSE r : r \in @}]

RECURSIVE ApplyAll(_, _)
ApplyAll(d, ws) ==
  IF ws = <<>> THEN d ELSE ApplyAll(ApplyOp(d, Head(ws)), Tail(ws))

\* what the statements of request p read
View(p) == ApplyAll(db, txn[p])

Insert(t, row) == [k |-> "insert", t |-> t, row |-> row]
Delete(t, ids) == [k |-> "delete", t |-> t, ids |-> ids]
Update(t, id, set) == [k |-> "update", t |-> t, id |-> id, set |-> set]

\* an INSERT of a row that refers to the user, and a DELETE of the user,
\* wait while another request holds the user row: its DELETE of the user is
\* not committed, or waits for the rows of the cascade
UserRowHeld(p, user_id) ==
  \E q \in Procs \ {p} :
    \/ pc[q] = "du_cascade" /\ loc[q].user_id = user_id
    \/ \E i \in DOMAIN txn[q] :
         LET w == txn[q][i] IN
         w.k = "delete" /\ w.t = "user" /\ user_id \in w.ids

\* request q holds a row of the user's accounts, sessions or verification
\* codes: it has updated or deleted the row and not yet committed
HoldsChildRow(q, user_id) ==
  \E i \in DOMAIN txn[q] :
    LET w == txn[q][i] IN
    /\ w.t \in UserChildren
    /\ \/ w.k = "delete" /\ \E r \in db[w.t] : r.id \in w.ids /\ r.user_id = user_id
       \/ w.k = "update" /\ \E r \in db[w.t] : r.id = w.id /\ r.user_id = user_id

\* a DELETE of the user row waits while another request's uncommitted
\* INSERT refers to it
UserRowReferred(p, user_id) ==
  \E q \in Procs \ {p} : \E i \in DOMAIN txn[q] :
    LET w == txn[q][i] IN
    w.k = "insert" /\ w.t \in UserChildren /\ w.row.user_id = user_id

\* ---------------------------------------------------------- repositories
\* only verified users are looked at
get_user_by_email_verified(d, email) ==
  {u \in d.user : u.email = email /\ u.email_verified}

get_user_by_email(d, email) == {u \in d.user : u.email = email}
get_user(d, user_id) == {u \in d.user : u.id = user_id}
\* UserRepository.delete_user: DELETE FROM user WHERE id = :id
delete_user(d, id) == Delete("user", {u.id : u \in get_user(d, id)})
get_accounts_by_user_id(d, user_id) == {a \in d.account : a.user_id = user_id}
get_account_by_account_id_and_provider_id(d, account_id, provider_id) ==
  {a \in d.account : a.account_id = account_id /\ a.provider_id = provider_id}
get_role_by_name(d, name) == {r \in d.role : r.name = name}
\* the roles are not joined with the memberships
get_roles_by_user_id_unjoined(d, user_id) == d.role

get_roles_by_user_id(d, user_id) ==
  {r \in d.role : [user_id |-> user_id, role_id |-> r.id] \in d.user_to_role}
get_session_by_id(d, session_id) == {s \in d.session : s.id = session_id}
get_verification_code_by_token(d, token) ==
  {c \in d.verification_code : c.token = token}
\* the statement matches no row
delete_verification_code_nothing(d, user_id, identifier) ==
  Delete("verification_code", {})

\* DELETE ... WHERE user_id = :u AND identifier = :i : the rows it removes
delete_verification_code(d, user_id, identifier) ==
  Delete("verification_code",
         {c.id : c \in {c \in d.verification_code :
                           c.user_id = user_id /\ c.identifier = identifier}})
\* the statement matches no row
delete_session_nothing(d, session_id) == Delete("session", {})

delete_session(d, session_id) ==
  Delete("session", {s.id : s \in get_session_by_id(d, session_id)})

\* _get_credentials_account: next(acc for acc in accounts if provider_id == "credentials")
get_credentials_account(d, user_id) ==
  {a \in get_accounts_by_user_id(d, user_id) : a.provider_id = "credentials"}

\* ------------------------------------------------------- password hasher
NoPassword == [alg |-> "none", pw |-> ""]
Hash(password) == [alg |-> "argon2id", pw |-> password]
Verify(stored_hash, password) ==
  stored_hash.alg = "argon2id" /\ stored_hash.pw = password

\* ------------------------------------------------------------- responses
Ok(body) == [status |-> 200, detail |-> "", body |-> body]
\* response bodies
Nothing == [kind |-> "none"]
TokenResponse(access_token, refresh_token) ==
  [kind |-> "tokens", access_token |-> access_token, refresh_token |-> refresh_token]
Row(r) == [kind |-> "row", row |-> r]

Err(status, detail) == [status |-> status, detail |-> detail, body |-> Nothing]
ServerError == Err(500, "Internal Server Error")
NoResp == [status |-> 0, detail |-> "", body |-> Nothing]
NoReq == [op |-> "none"]
NoLoc == [user_id |-> 0]

Free(p) == pc[p] \in {"idle", "done"}

\* the request ends with an exception: get_db rolls back and re-raises
Raise(p, r) ==
  /\ pc' = [pc EXCEPT ![p] = "done"]
  /\ txn' = [txn EXCEPT ![p] = <<>>]
  /\ loc' = [loc EXCEPT ![p] = NoLoc]
  /\ resp' = [resp EXCEPT ![p] = r]

\* the handler goes on to its next step
Goto(p, label, l, ws) ==
  /\ pc' = [pc EXCEPT ![p] = label]
  /\ loc' = [loc EXCEPT ![p] = l]
  /\ txn' = [txn EXCEPT ![p] = txn[p] \o ws]
  /\ resp' = [resp EXCEPT ![p] = NoResp]

\* ------------------------------------------------------------ stored rows
\* init_db() creates the tables that are missing and lifespan() seeds the
\* role table only when it is empty: the server starts on the rows earlier
\* runs left.  The rows below are such rows, as the models declare them.
StoredUser(verified) ==
  [id |-> 1, email |-> "a@x.com", email_verified |-> verified]
CredentialsAccount ==
  [id |-> 1, account_id |-> "email", provider_id |-> "credentials", user_id |-> 1,
   password |-> Hash("Abcdef1!"), access_token |-> ""]
ProviderAccount ==
  [id |-> 2, account_id |-> "g-1", provider_id |-> "google", user_id |-> 1,
   password |-> NoPassword, access_token |-> "stored-token"]
VerifyCode ==
  [id |-> 1, value |-> "111111", token |-> 1, user_id |-> 1,
   identifier |-> VERIFY_EMAIL, expires_at |-> VERIFICATION_CODE_EXPIRE_MINUTES]
ResetCode ==
  [id |-> 2, value |-> "222222", token |-> 2, user_id |-> 1,
   identifier |-> FORGOT_PASSWORD, expires_at |-> VERIFICATION_CODE_EXPIRE_MINUTES]
StoredSession ==
  [id |-> 1, user_id |-> 1, expires_at |-> SESSION_EXPIRE_DAYS * MinutesPerDay,
   role |-> "careseeker"]
\* a second session of the user, opened from another device
OtherSession ==
  [id |-> 2, user_id |-> 1, expires_at |-> SESSION_EXPIRE_DAYS * MinutesPerDay,
   role |-> "careseeker"]
Membership(role_id) == [user_id |-> 1, role_id |-> role_id]

\* the tokens that came with StoredSession
StoredAccessToken ==
  [type |-> "access", sub |-> 1, sessionId |-> 1, roles |-> {"careseeker"},
   exp |-> ACCESS_TOKEN_EXPIRE_MINUTES, sig |-> "HS256"]
StoredRefreshToken ==
  [type |-> "refresh", sub |-> 1, sessionId |-> 1,
   exp |-> REFRESH_TOKEN_EXPIRE_DAYS * MinutesPerDay, sig |-> "HS256"]
StoredTokens == {StoredAccessToken, StoredRefreshToken}

\* a database with the seeded roles and the given rows
Stored(users, accounts, memberships, sessions, codes) ==
  [ user |-> users, account |-> accounts, role |-> SeededRoles,
    user_to_role |-> memberships, session |-> sessions,
    verification_code |-> codes ]

\* the largest primary key of the rows, 0 for none
MaxId(rows) ==
  IF rows = {} THEN 0
  ELSE CHOOSE i \in {r.id : r \in rows} : \A r \in rows : r.id <= i

\* the first request arrives at the tables d; clients hold the tokens
InitWith(d, tokens) ==
  /\ db = d
  /\ cache = {}
  /\ now = 0
  /\ nextId = [user |-> MaxId(d.user) + 1, account |-> MaxId(d.account) + 1,
               session |-> MaxId(d.session) + 1,
               verification_code |-> MaxId(d.verification_code) + 1,
               state |-> 1]
  /\ pc = [p \in Procs |-> "idle"]
  /\ req = [p \in Procs |-> NoReq]
  /\ loc = [p \in Procs |-> NoLoc]
  /\ txn = [p \in Procs |-> <<>>]
  /\ resp = [p \in Procs |-> NoResp]
  /\ outbox = {}
  /\ issued = tokens
  /\ spent = {}

\* the server starts on a new database
Init == InitWith(Stored({}, {}, {}, {}, {}), {})

\* time passes: the clock moves on to a later instant of T
Tick(T) ==
  /\ \E t \in T : now < t /\ now' = t
  /\ UNCHANGED <<db, cache, nextId, pc, req, loc, txn, resp, outbox, issued, spent>>

\* get_db: the handler returned, the session is committed
Commit(p) ==
  /\ pc[p] = "commit"
  /\ db' = ApplyAll(db, txn[p])
  /\ pc' = [pc EXCEPT ![p] = "done"]
  /\ txn' = [txn EXCEPT ![p] = <<>>]
  /\ resp' = [resp EXCEPT ![p] = loc[p].result]
  /\ loc' = [loc EXCEPT ![p] = NoLoc]
  /\ issued' = issued \cup loc[p].tokens
  /\ spent' = spent \cup loc[p].used
  /\ UNCHANGED <<cache, now, nextId, req, outbox>>

\* the handler's result, returned once the session is committed
Return(p, result, tokens, used, ws) ==
  Goto(p, "commit", [result |-> result, tokens |-> tokens, used |-> used], ws)

\* the handler returned without having written anything
Finish(p, r) ==
  /\ pc' = [pc EXCEPT ![p] = "done"]
  /\ txn' = [txn EXCEPT ![p] = <<>>]
  /\ loc' = [loc EXCEPT ![p] = NoLoc]
  /\ resp' = [resp EXCEPT ![p] = r]

\* ================================================= schemas
\* the fields of SignUpSchema; reading any other attribute of a body raises
\* AttributeError
SignUpSchema == {"email", "password", "name", "roles"}

\* CreateUserSchema.model_validate: first_name and last_name have
\* min_length = 1
CreateUserSchema(obj) ==
  [valid |-> obj.first_name # "" /\ obj.last_name # "",
   email |-> obj.email, email_verified |-> obj.email_verified]

\* the fields of UpdateUserSchema, each with the key of the input that
\* populates it: its alias where one is declared (the schema does not
\* populate by name), else its name
UpdateUserFields ==
  [first_name |-> "firstName", last_name |-> "lastName", email |-> "email",
   roles_to_add |-> "rolesToAdd", roles_to_remove |-> "rolesToRemove"]

\* UpdateUserSchema.model_validate: a model object, not a mapping; it
\* carries the fields whose key is in the input, every other key of the
\* input is dropped
UpdateUserSchema(obj) ==
  [mapping |-> FALSE,
   set |-> [f \in {g \in DOMAIN UpdateUserFields : UpdateUserFields[g] \in DOMAIN obj} |->
              obj[UpdateUserFields[f]]]]

\* CreateSessionSchema(**values): a missing one of the required fields
\* raises ValidationError
CreateSessionSchema(values) ==
  [valid |-> {"expires_at", "user_id", "role"} \subseteq DOMAIN values,
   values |-> values]

\* ================================================= user repository
\* the unique index on user.email: an INSERT of a row with the email waits
\* while another request has inserted a row with it, or deleted the row that
\* has it, and not yet committed
EmailHeld(p, email) ==
  \E q \in Procs \ {p} : \E i \in DOMAIN txn[q] :
    LET w == txn[q][i] IN
    \/ w.k = "insert" /\ w.t = "user" /\ w.row.email = email
    \/ w.k = "delete" /\ w.t = "user"
         /\ \E u \in db.user : u.id \in w.ids /\ u.email = email

\* the user table takes a second row with the same email
create_user_no_unique_email(p, values, next, l) ==
  /\ spent' = spent
  /\ db' = db
  /\ nextId' = [nextId EXCEPT !.user = @ + 1]
  /\ Goto(p, "cu_commit", Merge(l, [user_id |-> nextId.user]) @@ [next |-> next],
          <<Insert("user", [id |-> nextId.user, email |-> values.email,
                            email_verified |-> values.email_verified])>>)

\* UserRepository.create_user, line 31: INSERT ... RETURNING is executed on
\* the request's session; the handler goes on at next with the new row's id
\* once the commit of line 32 is done.  user.email is unique: the insert of
\* a second row with the email raises IntegrityError.
create_user(p, values, next, l) ==
  /\ ~EmailHeld(p, values.email)
  /\ IF get_user_by_email(View(p), values.email) # {}
       THEN /\ Raise(p, ServerError)
            /\ spent' = spent \cup {<<"email", values.email>>}
            /\ UNCHANGED <<db, nextId>>
       ELSE /\ spent' = spent
            /\ db' = db
            /\ nextId' = [nextId EXCEPT !.user = @ + 1]
            /\ Goto(p, "cu_commit",
                    Merge(l, [user_id |-> nextId.user]) @@ [next |-> next],
                    <<Insert("user", [id |-> nextId.user, email |-> values.email,
                                      email_verified |-> values.email_verified])>>)

\* UserRepository.create_user, line 32: db.commit() commits the statements
\* of the request's session
CreateUserCommit(p) ==
  /\ pc[p] = "cu_commit"
  /\ db' = ApplyAll(db, txn[p])
  /\ pc' = [pc EXCEPT ![p] = loc[p].next]
  /\ txn' = [txn EXCEPT ![p] = <<>>]
  /\ UNCHANGED <<cache, now, nextId, req, loc, resp, outbox, issued, spent>>

\* UserRepository.update_user: update(User).where(id).values(**values),
\* execute, db.commit(), result.scalar_one().  `**values` raises TypeError
\* for a value that is no mapping, before any statement runs; scalar_one()
\* raises NoResultFound after the commit when no row matched.  ws are the
\* statements executed on the session so far.
update_user(p, ws, user_id, values, next) ==
  IF ~values.mapping
    THEN /\ Raise(p, ServerError)
         /\ db' = db
    ELSE IF get_user(ApplyAll(db, ws), user_id) = {}
      THEN /\ db' = ApplyAll(db, ws)
           /\ Raise(p, ServerError)
      ELSE /\ db' = ApplyAll(db, ws \o <<Update("user", user_id, values.set)>>)
           /\ pc' = [pc EXCEPT ![p] = next]
           /\ txn' = [txn EXCEPT ![p] = <<>>]
           /\ UNCHANGED <<loc, resp>>

\* ================================================= credential sign-up
\* AuthService.sign_up: the existence check, then the CreateUserSchema built
\* from body.first_name and body.last_name.  SignUpSchema has neither: the
\* attribute read raises and the request ends before any statement.
SignUp(p, email, password, roles) ==
  /\ Free(p)
  /\ req' = [req EXCEPT ![p] = [op |-> "sign_up", email |-> email,
                                password |-> password, roles |-> roles]]
  /\ IF get_user_by_email(View(p), email) # {}
       THEN /\ Raise(p, Err(409, "A user with this email address already exists"))
            /\ UNCHANGED <<db, nextId, spent>>
       ELSE IF ~({"first_name", "last_name"} \subseteq SignUpSchema)
         THEN /\ Raise(p, ServerError)
              /\ UNCHANGED <<db, nextId, spent>>
         ELSE create_user(p, [email |-> email, email_verified |-> FALSE],
                          "su_create_account", NoLoc)
  /\ UNCHANGED <<cache, now, outbox, issued>>

\* AccountRepository.create_account: INSERT on the request's session
create_account(id, account_id, provider_id, user_id, password, access_token) ==
  Insert("account", [id |-> id, account_id |-> account_id,
                     provider_id |-> provider_id, user_id |-> user_id,
                     password |-> password, access_token |-> access_token])

\* VerificationCodeRepository.create_verification_code with the fields of
\* CreateVerificationCodeSchema; the token is secrets.token_urlsafe(32), a
\* value never produced before
create_verification_code(value, user_id, identifier) ==
  Insert("verification_code",
         [id |-> nextId.verification_code, value |-> value,
          token |-> nextId.verification_code, user_id |-> user_id,
          identifier |-> identifier,
          expires_at |-> now + VERIFICATION_CODE_EXPIRE_MINUTES])

\* AuthService._send_verification_email: the code is inserted, then the
\* email client is called; an exception of the client is not caught
\* (the INSERT raises IntegrityError when the row of the user is gone)
send_verification_email(p, user_id, email, result) ==
  /\ nextId.verification_code <= MaxCodes
  /\ ~UserRowHeld(p, user_id)
  /\ nextId' = [nextId EXCEPT !.verification_code = @ + 1]
  /\ \E value \in CodeValues, sent \in BOOLEAN :
       IF get_user(View(p), user_id) = {}
         THEN /\ Raise(p, ServerError)
              /\ outbox' = outbox
       ELSE IF sent
         THEN /\ Return(p, result, {}, {},
                        <<create_verification_code(value, user_id, VERIFY_EMAIL)>>)
              /\ outbox' = outbox \cup
                   {[to |-> email, kind |-> VERIFY_EMAIL,
                     token |-> nextId.verification_code, code |-> value]}
         ELSE /\ Raise(p, ServerError)
              /\ outbox' = outbox

\* ================================================= email verification
\* the intent of the code is not compared
get_verification_code_or_404_any_type(d, token, expected_type) ==
  LET code == get_verification_code_by_token(d, token) IN
  IF code = {} THEN Err(404, "Verification code is invalid or expired")
  ELSE Ok(Row(CHOOSE c \in code : TRUE))

\* AuthService._get_verification_code_or_404
get_verification_code_or_404(d, token, expected_type) ==
  LET code == get_verification_code_by_token(d, token) IN
  IF code = {} THEN Err(404, "Verification code is invalid or expired")
  ELSE IF (CHOOSE c \in code : TRUE).identifier # expected_type
    THEN Err(400, "Invalid verification code type")
    ELSE Ok(Row(CHOOSE c \in code : TRUE))

\* AuthService._check_verification_code_expiry
check_verification_code_expiry(verification_code) ==
  IF verification_code.expires_at < now
    THEN Err(401, "Verification code has expired")
    ELSE Ok(Nothing)

\* AuthService.verify_email: the code is looked up and checked, then
\* update_user is handed an UpdateUserSchema
VerifyEmail(p, token, code) ==
  /\ Free(p)
  /\ req' = [req EXCEPT ![p] = [op |-> "verify_email", token |-> token, code |-> code]]
  /\ LET found == get_verification_code_or_404(View(p), token, VERIFY_EMAIL) IN
       IF found.status # 200
         THEN Raise(p, found) /\ db' = db
       ELSE IF found.body.row.value # code
         THEN Raise(p, Err(401, "Verification code is incorrect")) /\ db' = db
       ELSE IF check_verification_code_expiry(found.body.row).status # 200
         THEN Raise(p, check_verification_code_expiry(found.body.row)) /\ db' = db
       ELSE update_user(p, txn[p], found.body.row.user_id,
                        UpdateUserSchema([email_verified |-> TRUE]), "ve_delete")
  /\ UNCHANGED <<cache, now, nextId, outbox, issued, spent>>

\* a verified user gets a new code as well
ResendVerification_also_verified(p, email) ==
  /\ Free(p)
  /\ req' = [req EXCEPT ![p] = [op |-> "resend_verification", email |-> email]]
  /\ LET user == get_user_by_email(View(p), email) IN
       IF user = {}
         THEN Finish(p, Ok(Nothing))
         ELSE Goto(p, "rv_delete", [user_id |-> (CHOOSE u \in user : TRUE).id], <<>>)
  /\ UNCHANGED <<db, cache, now, nextId, outbox, issued, spent>>

\* AuthService.resend_verification, lines 287-289
ResendVerification(p, email) ==
  /\ Free(p)
  /\ req' = [req EXCEPT ![p] = [op |-> "resend_verification", email |-> email]]
  /\ LET user == get_user_by_email(View(p), email) IN
       IF user = {} \/ (CHOOSE u \in user : TRUE).email_verified
         THEN Finish(p, Ok(Nothing))
         ELSE Goto(p, "rv_delete", [user_id |-> (CHOOSE u \in user : TRUE).id], <<>>)
  /\ UNCHANGED <<db, cache, now, nextId, outbox, issued, spent>>

\* AuthService.resend_verification, lines 292-295
ResendVerificationDelete(p) ==
  /\ pc[p] = "rv_delete"
  /\ Goto(p, "rv_issue", loc[p],
          <<delete_verification_code(View(p), loc[p].user_id, VERIFY_EMAIL)>>)
  /\ UNCHANGED <<db, cache, now, nextId, req, outbox, issued, spent>>

\* AuthService.resend_verification, lines 298-299
ResendVerificationIssue(p) ==
  /\ pc[p] = "rv_issue"
  /\ send_verification_email(p, loc[p].user_id, req[p].email, Ok(Nothing))
  /\ UNCHANGED <<db, cache, now, req, issued, spent>>

\* ================================================= forgot / reset password
\* AuthService.forgot_password, lines 218-220
ForgotPassword(p, email) ==
  /\ Free(p)
  /\ req' = [req EXCEPT ![p] = [op |-> "forgot_password", email |-> email]]
  /\ LET user == get_user_by_email(View(p), email) IN
       IF user = {}
         THEN Finish(p, Ok(Nothing))
         ELSE Goto(p, "fp_account", [user_id |-> (CHOOSE u \in user : TRUE).id], <<>>)
  /\ UNCHANGED <<db, cache, now, nextId, outbox, issued, spent>>

\* the account check is skipped
ForgotPasswordAccount_unchecked(p) ==
  /\ pc[p] = "fp_account"
  /\ Goto(p, "fp_delete", loc[p], <<>>)
  /\ UNCHANGED <<db, cache, now, nextId, req, outbox, issued, spent>>

\* AuthService.forgot_password, lines 223-225
ForgotPasswordAccount(p) ==
  /\ pc[p] = "fp_account"
  /\ IF get_credentials_account(View(p), loc[p].user_id) = {}
       THEN Finish(p, Ok(Nothing))
       ELSE Goto(p, "fp_delete", loc[p], <<>>)
  /\ UNCHANGED <<db, cache, now, nextId, req, outbox, issued, spent>>

\* AuthService.forgot_password, lines 228-231
ForgotPasswordDelete(p) ==
  /\ pc[p] = "fp_delete"
  /\ Goto(p, "fp_issue", loc[p],
          <<delete_verification_code(View(p), loc[p].user_id, FORGOT_PASSWORD)>>)
  /\ UNCHANGED <<db, cache, now, nextId, req, outbox, issued, spent>>

\* AuthService.forgot_password, lines 234-250: the new code is inserted and
\* the email client is called; an exception of the client is not caught
\* (the INSERT raises IntegrityError when the row of the user is gone)
ForgotPasswordIssue(p) ==
  /\ pc[p] = "fp_issue"
  /\ nextId.verification_code <= MaxCodes
  /\ ~UserRowHeld(p, loc[p].user_id)
  /\ nextId' = [nextId EXCEPT !.verification_code = @ + 1]
  /\ \E value \in CodeValues, sent \in BOOLEAN :
       IF get_user(View(p), loc[p].user_id) = {}
         THEN /\ Raise(p, ServerError)
              /\ outbox' = outbox
       ELSE IF sent
         THEN /\ Return(p, Ok(Nothing), {}, {},
                        <<create_verification_code(value, loc[p].user_id, FORGOT_PASSWORD)>>)
              /\ outbox' = outbox \cup
                   {[to |-> req[p].email, kind |-> FORGOT_PASSWORD,
                     token |-> nextId.verification_code, code |-> value]}
         ELSE /\ Raise(p, ServerError)
              /\ outbox' = outbox
  /\ UNCHANGED <<db, cache, now, req, issued, spent>>

\* UpdateAccountSchema(**values).model_dump(exclude_unset=True): the columns
\* that were given
UpdateAccountSchema(values) == values

\* the UPDATE also clears email_verified of the account's user
update_account_clears_verified(d, account_id, provider_id, values) ==
  IF \E a \in d.account : a.id = account_id /\ a.provider_id = provider_id
    THEN << Update("account", account_id, values),
            Update("user", (CHOOSE a \in d.account : a.id = account_id).user_id,
                   [email_verified |-> FALSE]) >>
    ELSE <<>>

\* the UPDATE is not restricted to the row with the id: every Account of
\* that row's user is updated
update_account_of_user(d, account_id, provider_id, values) ==
  IF \E a \in d.account : a.id = account_id /\ a.provider_id = provider_id
    THEN LET user_id == (CHOOSE a \in d.account : a.id = account_id).user_id
             ids == {a.id : a \in get_accounts_by_user_id(d, user_id)}
             SeqOf[S \in SUBSET ids] ==
               IF S = {} THEN <<>>
               ELSE LET id == CHOOSE x \in S : \A y \in S : x <= y IN
                    <<Update("account", id, values)>> \o SeqOf[S \ {id}]
         IN SeqOf[ids]
    ELSE <<>>

\* AccountRepository.update_account: UPDATE ... WHERE id AND provider_id
update_account(d, account_id, provider_id, values) ==
  IF \E a \in d.account : a.id = account_id /\ a.provider_id = provider_id
    THEN <<Update("account", account_id, values)>>
    ELSE <<>>

\* AuthService.reset_password, lines 255-261: the code is looked up, its
\* expiry checked
ResetPassword(p, token, password) ==
  /\ Free(p)
  /\ req' = [req EXCEPT ![p] = [op |-> "reset_password", token |-> token,
                                password |-> password]]
  /\ LET found == get_verification_code_or_404(View(p), token, FORGOT_PASSWORD) IN
       IF found.status # 200 THEN Raise(p, found)
       ELSE IF check_verification_code_expiry(found.body.row).status # 200
         THEN Raise(p, check_verification_code_expiry(found.body.row))
       ELSE Goto(p, "rp_account", [user_id |-> found.body.row.user_id], <<>>)
  /\ UNCHANGED <<db, cache, now, nextId, outbox, issued, spent>>

\* AuthService.reset_password, lines 264-266
ResetPasswordAccount(p) ==
  /\ pc[p] = "rp_account"
  /\ LET account == get_credentials_account(View(p), loc[p].user_id) IN
       IF account = {}
         THEN Raise(p, Err(404, "No credentials account found"))
         ELSE \E a \in account :
                Goto(p, "rp_update", [user_id |-> loc[p].user_id, account_id |-> a.id],
                     <<>>)
  /\ UNCHANGED <<db, cache, now, nextId, req, outbox, issued, spent>>

\* AuthService.reset_password, lines 269-274
ResetPasswordUpdate(p) ==
  /\ pc[p] = "rp_update"
  /\ Goto(p, "rp_delete", loc[p],
          update_account(View(p), loc[p].account_id, "credentials",
                         UpdateAccountSchema([password |-> Hash(req[p].password)])))
  /\ UNCHANGED <<db, cache, now, nextId, req, outbox, issued, spent>>

\* the Sessions of the user are deleted with the code
ResetPasswordDelete_revokes_sessions(p) ==
  /\ pc[p] = "rp_delete"
  /\ Return(p, Ok(Nothing), {}, {<<"code", req[p].token>>},
            << delete_verification_code(View(p), loc[p].user_id, FORGOT_PASSWORD),
               Delete("session", {s.id : s \in {x \in View(p).session :
                                                  x.user_id = loc[p].user_id}}) >>)
  /\ UNCHANGED <<db, cache, now, nextId, req, outbox, issued, spent>>

\* AuthService.reset_password, lines 277-282
ResetPasswordDelete(p) ==
  /\ pc[p] = "rp_delete"
  /\ Return(p, Ok(Nothing), {}, {<<"code", req[p].token>>},
            <<delete_verification_code(View(p), loc[p].user_id, FORGOT_PASSWORD)>>)
  /\ UNCHANGED <<db, cache, now, nextId, req, outbox, issued, spent>>

\* ================================================= tokens
\* JWTClient.create_access_token
create_access_token(user_id, session_id, roles) ==
  [type |-> "access", sub |-> user_id, sessionId |-> session_id, roles |-> roles,
   exp |-> now + ACCESS_TOKEN_EXPIRE_MINUTES, sig |-> "HS256"]

\* JWTClient.create_refresh_token
create_refresh_token(user_id, session_id) ==
  [type |-> "refresh", sub |-> user_id, sessionId |-> session_id,
   exp |-> now + REFRESH_TOKEN_EXPIRE_DAYS * MinutesPerDay, sig |-> "HS256"]

\* the payload is not validated against the token class
decode_token_any_type(token, token_class) ==
  IF token.sig # "HS256" THEN Err(401, "Invalid token")
  ELSE IF token.exp <= now THEN Err(401, "Token has expired")
  ELSE Ok(Row(token))

\* JWTClient.decode_token: jwt.decode checks the signature, then exp; the
\* payload is then validated by the pydantic class, whose ValidationError
\* (missing roles, wrong type literal) is not an InvalidTokenError
decode_token(token, token_class) ==
  IF token.sig # "HS256" THEN Err(401, "Invalid token")
  ELSE IF token.exp <= now THEN Err(401, "Token has expired")
  ELSE IF token.type # token_class THEN ServerError
  ELSE Ok(Row(token))

decode_access_token(token) == decode_token(token, "access")
decode_refresh_token(token) == decode_token(token, "refresh")

\* the tokens a caller can present: the issued ones and one signed with
\* another key
Presentable ==
  issued \cup {[type |-> "refresh", sub |-> 1, sessionId |-> 1,
                exp |-> 100000, sig |-> "forged"]}

\* ================================================= credential sign-in
\* AuthService.sign_in, lines 126-128: the user is read
SignIn(p, email, password) ==
  /\ Free(p)
  /\ req' = [req EXCEPT ![p] = [op |-> "sign_in", email |-> email,
                                password |-> password]]
  /\ LET user == get_user_by_email(View(p), email) IN
       IF user = {} THEN Raise(p, Err(404, "Incorrect email or password"))
       ELSE Goto(p, "si_account", [user_id |-> (CHOOSE u \in user : TRUE).id], <<>>)
  /\ UNCHANGED <<db, cache, now, nextId, outbox, issued, spent>>

\* a user without a credentials account is let through
SignInAccount_without_account_check(p) ==
  /\ pc[p] = "si_account"
  /\ LET account == get_credentials_account(View(p), loc[p].user_id) IN
       IF account # {} /\ ~ \E a \in account : Verify(a.password, req[p].password)
         THEN Raise(p, Err(401, "Incorrect email or password"))
         ELSE Goto(p, "create_session", loc[p], <<>>)
  /\ UNCHANGED <<db, cache, now, nextId, req, outbox, issued, spent>>

\* AuthService.sign_in, lines 130-136: the accounts are read, the password
\* is verified
SignInAccount(p) ==
  /\ pc[p] = "si_account"
  /\ LET account == get_credentials_account(View(p), loc[p].user_id) IN
       IF account = {} \/ (\A a \in account : a.password = NoPassword)
         THEN Raise(p, Err(401, "Incorrect email or password"))
       ELSE IF ~ \E a \in account : Verify(a.password, req[p].password)
         THEN Raise(p, Err(401, "Incorrect email or password"))
       ELSE Goto(p, "create_session", loc[p], <<>>)
  /\ UNCHANGED <<db, cache, now, nextId, req, outbox, issued, spent>>

\* SessionRepository.create_session: INSERT ... RETURNING
create_session(id, values) == Insert("session", [id |-> id] @@ values)

\* AuthService._create_user_session: the roles are read, then the
\* CreateSessionSchema is built from expires_at and user_id alone
CreateUserSession(p) ==
  /\ pc[p] = "create_session"
  /\ LET roles == {r.name : r \in get_roles_by_user_id(View(p), loc[p].user_id)}
         schema == CreateSessionSchema(
                     [expires_at |-> now + SESSION_EXPIRE_DAYS * MinutesPerDay,
                      user_id |-> loc[p].user_id]) IN
       IF ~schema.valid
         THEN /\ Raise(p, ServerError)
              /\ UNCHANGED nextId
         ELSE /\ Goto(p, "mint",
                      [user_id |-> loc[p].user_id, session_id |-> nextId.session,
                       roles |-> roles],
                      <<create_session(nextId.session, schema.values)>>)
              /\ nextId' = [nextId EXCEPT !.session = @ + 1]
  /\ UNCHANGED <<db, cache, now, req, outbox, issued, spent>>

\* ================================================= session refresh
\* AuthService._get_session_or_404
get_session_or_404(d, session_id) ==
  IF get_session_by_id(d, session_id) = {}
    THEN Err(404, "Session not found")
    ELSE Ok(Row(CHOOSE s \in get_session_by_id(d, session_id) : TRUE))

\* a refresh token is refused once a later one was minted for its session
RefreshToken_rotating(p, token) ==
  /\ Free(p)
  /\ req' = [req EXCEPT ![p] = [op |-> "refresh_token", jwt |-> token]]
  /\ LET decoded == decode_refresh_token(token) IN
       IF decoded.status # 200 THEN Raise(p, decoded)
       ELSE IF \E t \in issued : /\ t.type = "refresh"
                                  /\ t.sessionId = token.sessionId
                                  /\ t.exp > token.exp
         THEN Raise(p, Err(401, "Invalid token"))
       ELSE LET session == get_session_or_404(View(p), token.sessionId) IN
         IF session.status # 200 THEN Raise(p, session)
         ELSE Goto(p, "rt_extend",
                   [user_id |-> token.sub, session_id |-> token.sessionId], <<>>)
  /\ UNCHANGED <<db, cache, now, nextId, outbox, issued, spent>>

\* AuthService.refresh_token, lines 180-185
RefreshToken(p, token) ==
  /\ Free(p)
  /\ req' = [req EXCEPT ![p] = [op |-> "refresh_token", jwt |-> token]]
  /\ LET decoded == decode_refresh_token(token) IN
       IF decoded.status # 200 THEN Raise(p, decoded)
       ELSE LET session == get_session_or_404(View(p), token.sessionId) IN
         IF session.status # 200 THEN Raise(p, session)
         ELSE Goto(p, "rt_extend",
                   [user_id |-> token.sub, session_id |-> token.sessionId], <<>>)
  /\ UNCHANGED <<db, cache, now, nextId, outbox, issued, spent>>

\* the UPDATE sets no column
update_session_sets_nothing(session_id, values) ==
  Update("session", session_id, [id |-> session_id])

\* SessionRepository.update_session: UPDATE ... WHERE id
update_session(session_id, values) == Update("session", session_id, values)

\* AuthService.refresh_token, lines 188-194
RefreshTokenExtend(p) ==
  /\ pc[p] = "rt_extend"
  /\ Goto(p, "rt_mint", loc[p],
          <<update_session(loc[p].session_id,
                           [expires_at |-> now + SESSION_EXPIRE_DAYS * MinutesPerDay])>>)
  /\ UNCHANGED <<db, cache, now, nextId, req, outbox, issued, spent>>

\* AuthService.refresh_token, lines 197-213
RefreshTokenMint(p) ==
  /\ pc[p] = "rt_mint"
  /\ LET roles == {r.name : r \in get_roles_by_user_id(View(p), loc[p].user_id)}
         access_token == create_access_token(loc[p].user_id, loc[p].session_id, roles)
         refresh_token == create_refresh_token(loc[p].user_id, loc[p].session_id) IN
       Return(p, Ok(TokenResponse(access_token, refresh_token)),
              {access_token, refresh_token}, {}, <<>>)
  /\ UNCHANGED <<db, cache, now, nextId, req, outbox, issued, spent>>

\* ================================================= routes behind a token guard
\* the parameters of AuthService.__init__
AuthServiceParameters ==
  {"account_repository", "user_repository", "role_repository",
   "user_to_role_repository", "verification_code_repository",
   "session_repository", "user_info_repository", "email_client", "jwt_client",
   "cache_client"}

\* the arguments AuthDependencies.__init__ passes to AuthService
AuthDependenciesArguments ==
  {"account_repository", "user_repository", "role_repository",
   "user_to_role_repository", "verification_code_repository",
   "session_repository", "email_client", "jwt_client"}

\* get_auth_deps: AuthDependencies(db) can be built; a required parameter
\* that is not passed raises TypeError
get_auth_deps == AuthServiceParameters \subseteq AuthDependenciesArguments

\* get_session (deps.py): the token is decoded, the Session row is read
get_session(d, token) ==
  LET payload == decode_access_token(token) IN
  IF payload.status # 200 THEN payload
  ELSE IF get_session_by_id(d, token.sessionId) = {}
    THEN Err(401, "Session not found")
    ELSE Ok(Row(CHOOSE s \in get_session_by_id(d, token.sessionId) : TRUE))

\* every session is deleted
sign_out_every_session(d, session_id) ==
  <<Delete("session", {s.id : s \in d.session})>>

\* AuthService.sign_out: the statements it executes
sign_out(d, session_id) == <<delete_session(d, session_id)>>

\* route /auth/sign-out: the get_session guard, then the route's deps are
\* built, then AuthService.sign_out
SignOut(p, token) ==
  /\ Free(p)
  /\ req' = [req EXCEPT ![p] = [op |-> "sign_out", jwt |-> token]]
  /\ LET session == get_session(View(p), token) IN
       IF session.status # 200 THEN Raise(p, session)
       ELSE IF ~get_auth_deps THEN Raise(p, ServerError)
       ELSE Goto(p, "so_delete", [user_id |-> 0, session_id |-> session.body.row.id], <<>>)
  /\ UNCHANGED <<db, cache, now, nextId, outbox, issued, spent>>

\* AuthService.sign_out called with a session id
ServiceSignOut(p, session_id) ==
  /\ Free(p)
  /\ req' = [req EXCEPT ![p] = [op |-> "service_sign_out", session_id |-> session_id]]
  /\ Return(p, Ok(Nothing), {}, {<<"session", session_id>>},
            sign_out(View(p), session_id))
  /\ UNCHANGED <<db, cache, now, nextId, outbox, issued, spent>>

\* get_current_user (deps.py), lines 53-68: the token is decoded, the
\* Session row is read and its expiry checked
GetMe(p, token) ==
  /\ Free(p)
  /\ req' = [req EXCEPT ![p] = [op |-> "get_me", jwt |-> token]]
  /\ LET payload == decode_access_token(token)
         session == get_session_by_id(View(p), token.sessionId) IN
       IF payload.status # 200 THEN Raise(p, payload)
       ELSE IF session = {} THEN Raise(p, Err(401, "Session not found"))
       ELSE IF (CHOOSE s \in session : TRUE).expires_at < now
         THEN Raise(p, Err(401, "Session expired"))
       ELSE Goto(p, "gm_user", [user_id |-> token.sub], <<>>)
  /\ UNCHANGED <<db, cache, now, nextId, outbox, issued, spent>>

\* get_current_user (deps.py), lines 70-79: the User row is read; then the
\* route's deps are built, then AuthService.get_me
GetMeUser(p) ==
  /\ pc[p] = "gm_user"
  /\ IF get_user(View(p), loc[p].user_id) = {}
       THEN Raise(p, Err(401, "User not found"))
     ELSE IF ~get_auth_deps THEN Raise(p, ServerError)
     ELSE Goto(p, "gm_get_me", loc[p], <<>>)
  /\ UNCHANGED <<db, cache, now, nextId, req, outbox, issued, spent>>

\* ================================================= user routes
\* the parameters of UserService.__init__
UserServiceParameters ==
  {"user_repository", "user_info_repository", "storage_client"}

\* the arguments UserDependencies.__init__ passes to UserService
UserDependenciesArguments == {"user_repository", "user_info_repository"}

\* get_user_deps: UserDependencies(db) can be built; a required parameter
\* that is not passed raises TypeError
get_user_deps == UserServiceParameters \subseteq UserDependenciesArguments

\* route DELETE /users/{user_id}: the route's deps are built, then
\* UserService.delete_user; the route has no token guard
DeleteUser(p, user_id) ==
  /\ Free(p)
  /\ req' = [req EXCEPT ![p] = [op |-> "DELETE /users", user_id |-> user_id]]
  /\ IF ~get_user_deps THEN Raise(p, ServerError)
     ELSE Goto(p, "du_delete", [user_id |-> user_id], <<>>)
  /\ UNCHANGED <<db, cache, now, nextId, outbox, issued, spent>>

\* UserService.delete_user called with a user id: DELETE FROM user WHERE id
\* is executed on the request's session.  The statement takes the row of
\* the user, for which it waits, and then the rows of the cascade; when
\* another request holds one of these it waits for that request with the
\* user row held.  Nothing is raised when no row matches.
ServiceDeleteUser(p, user_id) ==
  /\ Free(p)
  /\ ~UserRowReferred(p, user_id)
  /\ ~UserRowHeld(p, user_id)
  /\ req' = [req EXCEPT ![p] = [op |-> "service_delete_user", user_id |-> user_id]]
  /\ IF get_user(View(p), user_id) # {} /\ \E q \in Procs \ {p} : HoldsChildRow(q, user_id)
       THEN Goto(p, "du_cascade", [user_id |-> user_id], <<>>)
       ELSE Return(p, Ok(Nothing), {}, {}, <<delete_user(View(p), user_id)>>)
  /\ UNCHANGED <<db, cache, now, nextId, outbox, issued, spent>>

\* the DELETE of the user goes on once no other request holds a row of the
\* cascade
DeleteUserCascade(p) ==
  /\ pc[p] = "du_cascade"
  /\ ~ \E q \in Procs \ {p} : HoldsChildRow(q, loc[p].user_id)
  /\ Return(p, Ok(Nothing), {}, {}, <<delete_user(View(p), loc[p].user_id)>>)
  /\ UNCHANGED <<db, cache, now, nextId, req, outbox, issued, spent>>

\* the database ends a deadlock: the DELETE of the user waits for a row of
\* the cascade that another request has deleted or updated, and that
\* request's next statement, an INSERT of a row of the user, waits for the
\* user row; the statement of one of the two requests is aborted, the
\* request ends with the exception and is rolled back
DeadlockAbort(p) ==
  /\ \E d, w \in Procs :
       /\ d # w /\ p \in {d, w}
       /\ pc[d] = "du_cascade"
       /\ HoldsChildRow(w, loc[d].user_id)
       /\ pc[w] \in {"rv_issue", "fp_issue", "oc_link", "oc_create_account",
                     "oc_assign"}
       /\ loc[w].user_id = loc[d].user_id
  /\ Raise(p, ServerError)
  /\ UNCHANGED <<db, cache, now, nextId, req, outbox, issued, spent>>

\* UserWithInformationSchema.model_validate(user): the user as returned
UserWithInformationSchema(user) == Row(user)

\* AuthService.get_me
get_me(d, user_id) ==
  IF get_user(d, user_id) = {}
    THEN Err(404, "User not found")
    ELSE Ok(UserWithInformationSchema(CHOOSE u \in get_user(d, user_id) : TRUE))

\* AuthService.get_me called with a user id
ServiceGetMe(p, user_id) ==
  /\ Free(p)
  /\ req' = [req EXCEPT ![p] = [op |-> "service_get_me", user_id |-> user_id]]
  /\ IF get_me(View(p), user_id).status # 200
       THEN Raise(p, get_me(View(p), user_id))
       ELSE Finish(p, get_me(View(p), user_id))
  /\ UNCHANGED <<db, cache, now, nextId, outbox, issued, spent>>

\* ================================================= OAuth federation
\* CacheClient.get: a key set with ex=600 is gone once its lifetime is over
cache_get(key) == {e \in cache : e.key = key /\ now < e.expires}

\* any state passes
validate_oauth_state_any(state) == Ok(Nothing)

\* AuthService._validate_oauth_state, lines 554-559
validate_oauth_state(state) ==
  IF cache_get(state) = {}
    THEN Err(400, "Invalid or expired state parameter")
    ELSE Ok(Nothing)

\* f"Provider '{provider}' is not supported"
NotSupported(provider) == "Provider '" \o provider \o "' is not supported"

\* AuthService.initiate_oauth_login
InitiateOAuthLogin(p, provider, role) ==
  /\ Free(p)
  /\ req' = [req EXCEPT ![p] = [op |-> "initiate_oauth_login",
                                provider |-> provider, role |-> role]]
  /\ IF provider # "google"
       THEN /\ Raise(p, Err(400, NotSupported(provider)))
            /\ UNCHANGED <<cache, nextId>>
       ELSE /\ nextId.state <= MaxStates
            /\ cache' = cache \cup
                 {[key |-> nextId.state, expires |-> now + OAUTH_STATE_EXPIRE_MINUTES]}
            /\ nextId' = [nextId EXCEPT !.state = @ + 1]
            /\ Finish(p, Ok([kind |-> "url", state |-> nextId.state]))
  /\ UNCHANGED <<db, now, outbox, issued, spent>>

\* AuthService.handle_oauth_callback, lines 353-358, and
\* _validate_oauth_state, lines 554-559: the state is read from the cache
HandleOAuthCallback(p, provider, state, role) ==
  /\ Free(p)
  /\ req' = [req EXCEPT ![p] = [op |-> "handle_oauth_callback", provider |-> provider,
                                state |-> state, role |-> role, answer |-> "none"]]
  /\ IF provider # "google"
       THEN Raise(p, Err(400, NotSupported(provider)))
       ELSE IF validate_oauth_state(state).status # 200
         THEN Raise(p, validate_oauth_state(state))
         ELSE Goto(p, "oc_delete_state", NoLoc, <<>>)
  /\ UNCHANGED <<db, cache, now, nextId, outbox, issued, spent>>

\* the key is left in the cache
OAuthDeleteState_keeps_key(p) ==
  /\ pc[p] = "oc_delete_state"
  /\ pc' = [pc EXCEPT ![p] = "oc_provider"]
  /\ spent' = spent \cup {<<"state", req[p].state>>}
  /\ UNCHANGED <<db, cache, now, nextId, req, loc, txn, resp, outbox, issued>>

\* _validate_oauth_state, line 560: CacheClient.delete
OAuthDeleteState(p) ==
  /\ pc[p] = "oc_delete_state"
  /\ cache' = {e \in cache : e.key # req[p].state}
  /\ pc' = [pc EXCEPT ![p] = "oc_provider"]
  /\ spent' = spent \cup {<<"state", req[p].state>>}
  /\ UNCHANGED <<db, now, nextId, req, loc, txn, resp, outbox, issued>>

\* what the provider does with the two requests of a callback: it answers
\* the code exchange or the profile fetch with an HTTP error status, cannot
\* be reached, answers 2xx with a body that lacks what the handler indexes
\* (access_token; id, email), or returns a profile
ProviderAnswers ==
  {"exchange_http_error", "exchange_unreachable", "exchange_malformed",
   "profile_http_error", "profile_unreachable", "profile_malformed", "profile"}

\* the httpx exceptions of the code exchange are not caught
exchange_code_for_token_uncaught(answer) ==
  CASE answer = "exchange_http_error" -> ServerError
    [] answer = "exchange_unreachable" -> ServerError
    [] answer = "exchange_malformed" -> ServerError
    [] OTHER -> Ok(Nothing)

\* AuthService._exchange_code_for_token, and token_data["access_token"] of
\* handle_oauth_callback line 366, whose KeyError nothing catches
exchange_code_for_token(answer) ==
  CASE answer = "exchange_http_error" -> Err(401, "Failed to authenticate with provider")
    [] answer = "exchange_unreachable" ->
         Err(503, "Failed to connect to authentication provider")
    [] answer = "exchange_malformed" -> ServerError
    [] OTHER -> Ok(Nothing)

\* AuthService._fetch_google_user_info, and user_info["id"], user_info["email"]
\* of _create_or_update_oauth_user lines 625-626, whose KeyError nothing catches
fetch_google_user_info(answer) ==
  CASE answer = "profile_http_error" -> Err(401, "Failed to fetch user information")
    [] answer = "profile_unreachable" ->
         Err(503, "Failed to connect to authentication provider")
    [] answer = "profile_malformed" -> ServerError
    [] OTHER -> Ok(Nothing)

\* handle_oauth_callback, lines 363-366, and _create_or_update_oauth_user,
\* lines 625-626: the two requests to the provider
OAuthProvider(p) ==
  /\ pc[p] = "oc_provider"
  /\ \E answer \in ProviderAnswers :
       /\ req' = [req EXCEPT ![p].answer = answer]
       /\ IF exchange_code_for_token(answer).status # 200
            THEN Raise(p, exchange_code_for_token(answer))
          ELSE IF fetch_google_user_info(answer).status # 200
            THEN Raise(p, fetch_google_user_info(answer))
          ELSE \* given_name and family_name of a profile may be missing
               \E id \in ProviderUserIds, email \in Emails,
                  names \in {<<"", "">>, <<"Ada", "">>, <<"Ada", "Lovelace">>} :
                 Goto(p, "oc_resolve",
                      [user_id |-> 0, id |-> id, email |-> email,
                       given_name |-> names[1],
                       family_name |-> names[2]], <<>>)
  /\ UNCHANGED <<db, cache, now, nextId, outbox, issued, spent>>

\* _create_or_update_oauth_user, lines 629-636: the account of the provider
\* identity is read
OAuthResolve(p) ==
  /\ pc[p] = "oc_resolve"
  /\ LET account == get_account_by_account_id_and_provider_id(
                       View(p), loc[p].id, req[p].provider) IN
       IF Cardinality(account) > 1 THEN Raise(p, ServerError)
       ELSE IF account # {}
         THEN Goto(p, "oc_update",
                   Merge(loc[p], [user_id |-> (CHOOSE a \in account : TRUE).user_id])
                     @@ [account_id |-> (CHOOSE a \in account : TRUE).id], <<>>)
         ELSE Goto(p, "oc_user", loc[p], <<>>)
  /\ UNCHANGED <<db, cache, now, nextId, req, outbox, issued, spent>>

\* _create_or_update_oauth_user, lines 644-646: the user with the email of
\* the profile is read
OAuthResolveUser(p) ==
  /\ pc[p] = "oc_user"
  /\ LET existing_user == get_user_by_email(View(p), loc[p].email) IN
       IF existing_user # {}
         THEN Goto(p, "oc_link",
                   Merge(loc[p], [user_id |-> (CHOOSE u \in existing_user : TRUE).id]), <<>>)
         ELSE Goto(p, "oc_create_user", loc[p], <<>>)
  /\ UNCHANGED <<db, cache, now, nextId, req, outbox, issued, spent>>

\* _update_oauth_account: update_account, then update_user with an
\* UpdateUserSchema
OAuthUpdateAccount(p) ==
  /\ pc[p] = "oc_update"
  /\ update_user(p,
                 txn[p] \o update_account(View(p), loc[p].account_id, req[p].provider,
                              UpdateAccountSchema([access_token |-> "provider-token"])),
                 loc[p].user_id,
                 UpdateUserSchema([first_name |-> loc[p].given_name,
                                   last_name |-> loc[p].family_name]),
                 "oc_updated")
  /\ UNCHANGED <<cache, now, nextId, req, outbox, issued, spent>>

\* _link_oauth_to_existing_user: create_account, then update_user with an
\* UpdateUserSchema
\* (the INSERT raises IntegrityError when the row of the user is gone)
OAuthLinkAccount(p) ==
  /\ pc[p] = "oc_link"
  /\ ~UserRowHeld(p, loc[p].user_id)
  /\ IF get_user(View(p), loc[p].user_id) = {}
       THEN Raise(p, ServerError) /\ db' = db
       ELSE update_user(p,
                 txn[p] \o <<create_account(nextId.account, loc[p].id, req[p].provider,
                                            loc[p].user_id, NoPassword, "provider-token")>>,
                 loc[p].user_id,
                 UpdateUserSchema([email_verified |-> TRUE]),
                 "create_session")
  /\ nextId' = [nextId EXCEPT !.account = @ + 1]
  /\ UNCHANGED <<cache, now, req, outbox, issued, spent>>

\* _create_new_oauth_user, lines 738-747: the CreateUserSchema is built from
\* the profile, the user inserted
OAuthCreateUser(p) ==
  /\ pc[p] = "oc_create_user"
  /\ nextId.user <= MaxUsers
  /\ LET schema == CreateUserSchema(
                     [email |-> loc[p].email, first_name |-> loc[p].given_name,
                      last_name |-> loc[p].family_name, email_verified |-> TRUE]) IN
       IF ~schema.valid
         THEN /\ Raise(p, ServerError)
              /\ UNCHANGED <<db, nextId, spent>>
         ELSE create_user(p, schema, "oc_create_account", loc[p])
  /\ UNCHANGED <<cache, now, req, outbox, issued>>

\* _create_new_oauth_user, lines 750-761: the account is inserted
\* (the INSERT raises IntegrityError when the row of the user is gone)
OAuthCreateAccount(p) ==
  /\ pc[p] = "oc_create_account"
  /\ ~UserRowHeld(p, loc[p].user_id)
  /\ IF get_user(View(p), loc[p].user_id) = {} THEN Raise(p, ServerError)
     ELSE Goto(p, "oc_role", loc[p],
               <<create_account(nextId.account, loc[p].id, req[p].provider,
                                loc[p].user_id, NoPassword, "provider-token")>>)
  /\ nextId' = [nextId EXCEPT !.account = @ + 1]
  /\ UNCHANGED <<db, cache, now, req, outbox, issued, spent>>

\* _assign_roles_to_user, line 486, called with [RoleEnum(role)]: the Role
\* of the name is read; a name without a Role row is skipped
OAuthRole(p) ==
  /\ pc[p] = "oc_role"
  /\ LET role == get_role_by_name(View(p), req[p].role) IN
       IF role = {} THEN Goto(p, "create_session", loc[p], <<>>)
       ELSE Goto(p, "oc_assign",
                 loc[p] @@ [role_id |-> (CHOOSE r \in role : TRUE).id], <<>>)
  /\ UNCHANGED <<db, cache, now, nextId, req, outbox, issued, spent>>

\* _assign_roles_to_user, lines 487-491: the membership is inserted.
\* user_to_role has the primary key (user_id, role_id), so the insert of a
\* pair that is already there raises IntegrityError, and so does the insert
\* for a user whose row is gone.
OAuthAssignRole(p) ==
  /\ pc[p] = "oc_assign"
  /\ ~UserRowHeld(p, loc[p].user_id)
  /\ LET row == [user_id |-> loc[p].user_id, role_id |-> loc[p].role_id] IN
       IF get_user(View(p), loc[p].user_id) = {} \/ row \in View(p).user_to_role
         THEN Raise(p, ServerError)
         ELSE Goto(p, "create_session", loc[p], <<Insert("user_to_role", row)>>)
  /\ UNCHANGED <<db, cache, now, nextId, req, outbox, issued, spent>>

\* ================================================= the system
ResendSteps(p) ==
  \/ ResendVerificationDelete(p)
  \/ ResendVerificationIssue(p)

ForgotSteps(p) ==
  \/ ForgotPasswordAccount(p)
  \/ ForgotPasswordDelete(p)
  \/ ForgotPasswordIssue(p)

ResetSteps(p) ==
  \/ ResetPasswordAccount(p)
  \/ ResetPasswordUpdate(p)
  \/ ResetPasswordDelete(p)

VerificationStep(p) ==
  \/ \E token \in 1..MaxCodes, code \in CodeValues : VerifyEmail(p, token, code)
  \/ \E email \in Emails : ResendVerification(p, email)
  \/ ResendSteps(p)
  \/ \E email \in Emails : ForgotPassword(p, email)
  \/ ForgotSteps(p)
  \/ \E token \in 1..MaxCodes, password \in Passwords : ResetPassword(p, token, password)
  \/ ResetSteps(p)

RefreshSteps(p) ==
  \/ RefreshTokenExtend(p)
  \/ RefreshTokenMint(p)

SessionStep(p) ==
  \/ \E email \in Emails, password \in Passwords : SignIn(p, email, password)
  \/ SignInAccount(p)
  \/ CreateUserSession(p)
  \/ \E token \in Presentable : RefreshToken(p, token)
  \/ RefreshSteps(p)
  \/ \E token \in Presentable : SignOut(p, token)
  \/ \E session_id \in 1..2 : ServiceSignOut(p, session_id)
  \/ \E token \in Presentable : GetMe(p, token)
  \/ GetMeUser(p)
  \/ \E user_id \in 1..MaxUsers : ServiceGetMe(p, user_id)

CallbackSteps(p) ==
  \/ OAuthDeleteState(p)
  \/ OAuthProvider(p)
  \/ OAuthResolve(p)
  \/ OAuthResolveUser(p)
  \/ OAuthUpdateAccount(p)
  \/ OAuthLinkAccount(p)
  \/ OAuthCreateUser(p)
  \/ CreateUserCommit(p)
  \/ OAuthCreateAccount(p)
  \/ OAuthRole(p)
  \/ OAuthAssignRole(p)
  \/ CreateUserSession(p)

OAuthStep(p) ==
  \/ \E provider \in Providers, role \in OAuthRoles : InitiateOAuthLogin(p, provider, role)
  \/ \E provider \in Providers, state \in 1..MaxStates, role \in OAuthRoles :
       HandleOAuthCallback(p, provider, state, role)
  \/ CallbackSteps(p)

Step(p) ==
  \/ \E email \in Emails, password \in Passwords, roles \in RoleLists :
       SignUp(p, email, password, roles)
  \/ VerificationStep(p)
  \/ SessionStep(p)
  \/ OAuthStep(p)
  \/ \E user_id \in 1..MaxUsers : DeleteUser(p, user_id)
  \/ \E user_id \in 1..MaxUsers : ServiceDeleteUser(p, user_id)
  \/ DeleteUserCascade(p)
  \/ DeadlockAbort(p)
  \/ Commit(p)

\* any number of requests at a time; the clock is read, in minutes, within
\* every lifetime, past the OAuth state's, past the verification code's and
\* past the session's
Next ==
  \/ Tick({5, 10, 16, 43205})
  \/ \E p \in Procs : Step(p)

Spec == Init /\ [][Next]_vars

\* the short codes generated in this step are all value
ShortCodeIs(value) == \A m \in outbox' \ outbox : m.code = value

\* the profile that the provider returns in this step has this email
ProfileEmailIs(p, email) == pc'[p] = "oc_resolve" => loc'[p].email = email

\* the profile that the provider returns in this step has this id
ProfileIdIs(p, id) == pc'[p] = "oc_resolve" => loc'[p].id = id

\* the profile that the provider returns in this step has both names
ProfileNamed(p) ==
  pc'[p] = "oc_resolve" => (loc'[p].given_name # "" /\ loc'[p].family_name # "")

\* ------------------------------------------------ verification codes
\* user a@x.com, verified or not, with or without a credentials account, a
\* careseeker, holds a verify_email code and a forgot_password code; the
\* role table is the seeded one or one that was filled before the server
\* started
InitCodes ==
  \E verified \in BOOLEAN, accounts \in {{}, {CredentialsAccount}},
     roles \in {SeededRoles, {[id |-> 2, name |-> "careseeker"]}} :
    InitWith([Stored({StoredUser(verified)}, accounts, {Membership(2)}, {},
                     {VerifyCode, ResetCode}) EXCEPT !.role = roles], {})

\* one request at a time
NextCodes ==
  \/ \E email \in Emails, roles \in RoleLists : SignUp(1, email, "Abcdef1!", roles)
  \/ VerificationStep(1)
  \/ ServiceDeleteUser(1, StoredUser(TRUE).id)
  \/ Commit(1)

SpecCodes == InitCodes /\ [][NextCodes]_vars

\* user a@x.com, not verified, with a credentials account, holds a
\* verify_email code and a forgot_password code
InitCodesOfUser ==
  InitWith(Stored({StoredUser(FALSE)}, {CredentialsAccount}, {Membership(2)}, {},
                  {VerifyCode, ResetCode}), {})

\* one request at a time, codes expire
NextCodesTimed ==
  \/ Tick({10, 16})
  \/ VerificationStep(1)
  \/ Commit(1)

SpecCodesTimed == InitCodesOfUser /\ [][NextCodesTimed]_vars

\* two requests at a time for one user; every generated short code is the same
NextCodesConc ==
  \E p \in Procs :
    \/ \E token \in 1..MaxCodes : VerifyEmail(p, token, "111111")
    \/ ResendVerification(p, "a@x.com")
    \/ ResendSteps(p) /\ ShortCodeIs("111111")
    \/ ForgotPassword(p, "a@x.com")
    \/ ForgotSteps(p) /\ ShortCodeIs("111111")
    \/ \E token \in 1..MaxCodes : ResetPassword(p, token, "Zyxwvu9#")
    \/ ResetSteps(p)
    \/ ServiceDeleteUser(p, StoredUser(FALSE).id)
    \/ DeleteUserCascade(p)
    \/ DeadlockAbort(p)
    \/ Commit(p)

SpecCodesConc == InitCodesOfUser /\ [][NextCodesConc]_vars

\* ------------------------------------------------ OAuth federation
\* no user yet, or user a@x.com, verified or not, with a credentials
\* account or with the account of the provider identity g-1
InitOAuth ==
  \/ InitWith(Stored({}, {}, {}, {}, {}), {})
  \/ \E verified \in BOOLEAN, account \in {CredentialsAccount, ProviderAccount} :
       InitWith(Stored({StoredUser(verified)}, {account}, {Membership(2)}, {}, {}), {})

\* one request at a time while time passes
NextOAuth ==
  \/ Tick({5, 10})
  \/ OAuthStep(1)
  \/ ServiceDeleteUser(1, StoredUser(TRUE).id)
  \/ Commit(1)

SpecOAuth == InitOAuth /\ [][NextOAuth]_vars

\* no user yet, or user a@x.com with a credentials account
InitOAuthConc ==
  \/ InitWith(Stored({}, {}, {}, {}, {}), {})
  \/ InitWith(Stored({StoredUser(FALSE)}, {CredentialsAccount}, {Membership(2)}, {}, {}), {})

\* two requests at a time: callbacks, sign-ups with the email of the profile
\* and deletions of the user with the first id; the provider knows the
\* caller as g-1, a@x.com
NextOAuthConc ==
  \E p \in Procs :
    \/ \E role \in OAuthRoles : InitiateOAuthLogin(p, "google", role)
    \/ \E state \in 1..MaxStates, role \in OAuthRoles :
         HandleOAuthCallback(p, "google", state, role)
    \/ CallbackSteps(p) /\ ProfileEmailIs(p, "a@x.com") /\ ProfileIdIs(p, "g-1")
    \/ SignUp(p, "a@x.com", "Abcdef1!", <<"careseeker">>)
    \/ ServiceDeleteUser(p, StoredUser(TRUE).id)
    \/ Commit(p)

SpecOAuthConc == InitOAuthConc /\ [][NextOAuthConc]_vars

\* ------------------------------------------------ credentials and sessions
\* user a@x.com, verified or not, with a credentials account (with or
\* without a password hash) or a provider account only, holding no, one or
\* two roles, has two sessions; the client holds the tokens of the first
InitSession ==
  \E verified \in BOOLEAN,
     accounts \in {{CredentialsAccount}, {ProviderAccount}},
     memberships \in {{}, {Membership(2)}, {Membership(2), Membership(3)}} :
    InitWith(Stored({StoredUser(verified)}, accounts, memberships,
                    {StoredSession, OtherSession}, {}), StoredTokens)

\* one request at a time while time passes
NextSession ==
  \/ Tick({10, 43205})
  \/ SessionStep(1)
  \/ ServiceDeleteUser(1, StoredUser(TRUE).id)
  \/ Commit(1)

SpecSession == InitSession /\ [][NextSession]_vars

\* user a@x.com with a credentials account and a role has a session; the
\* client holds its tokens
InitSessionOfUser ==
  InitWith(Stored({StoredUser(TRUE)}, {CredentialsAccount}, {Membership(2)},
                  {StoredSession, OtherSession}, {}), StoredTokens)

\* two requests at a time on the sessions of one user
NextSessionConc ==
  \E p \in Procs :
    \/ \E token \in issued : RefreshToken(p, token)
    \/ RefreshSteps(p)
    \/ \E session_id \in 1..2 : ServiceSignOut(p, session_id)
    \/ \E token \in issued : GetMe(p, token)
    \/ GetMeUser(p)
    \/ DeleteUser(p, StoredUser(TRUE).id)
    \/ ServiceDeleteUser(p, StoredUser(TRUE).id)
    \/ DeleteUserCascade(p)
    \/ Commit(p)

SpecSessionConc == InitSessionOfUser /\ [][NextSessionConc]_vars

\* ------------------------------------------------ password reset
\* one request at a time: the password is asked for, reset to another one,
\* the user signs in and refreshes
NextReset ==
  \/ ForgotPassword(1, "a@x.com")
  \/ ForgotSteps(1) /\ ShortCodeIs("222222")
  \/ \E token \in 1..MaxCodes : ResetPassword(1, token, "Zyxwvu9#")
  \/ ResetSteps(1)
  \/ \E password \in Passwords : SignIn(1, "a@x.com", password)
  \/ SignInAccount(1)
  \/ CreateUserSession(1)
  \/ \E token \in issued : RefreshToken(1, token)
  \/ RefreshSteps(1)
  \/ ServiceDeleteUser(1, StoredUser(TRUE).id)
  \/ Commit(1)

\* user a@x.com, verified or not, with a credentials account and a role,
\* has two sessions and a forgot_password code; the client holds the tokens
\* of the first session
SpecReset ==
  /\ \E verified \in BOOLEAN :
       InitWith(Stored({StoredUser(verified)}, {CredentialsAccount}, {Membership(2)},
                       {StoredSession, OtherSession}, {ResetCode}), StoredTokens)
  /\ [][NextReset]_vars

\* ------------------------------------------------ a verified user
\* user a@x.com is verified, has a credentials account, with or without an
\* account of the provider identity g-1, a role, a session and a
\* forgot_password code; the client holds the tokens of the session
InitVerified ==
  \E accounts \in {{CredentialsAccount}, {CredentialsAccount, ProviderAccount}} :
    InitWith(Stored({StoredUser(TRUE)}, accounts, {Membership(2)},
                    {StoredSession}, {ResetCode}), StoredTokens)

\* one request at a time, of every operation
NextVerified ==
  \/ ResendVerification(1, "a@x.com")
  \/ ForgotPassword(1, "a@x.com")
  \/ ForgotSteps(1) /\ ShortCodeIs("222222")
  \/ \E token \in 1..MaxCodes : ResetPassword(1, token, "Zyxwvu9#")
  \/ ResetSteps(1)
  \/ SignIn(1, "a@x.com", "Zyxwvu9#")
  \/ SignInAccount(1)
  \/ \E token \in issued : RefreshToken(1, token)
  \/ RefreshSteps(1)
  \/ \E token \in issued : SignOut(1, token)
  \/ ServiceSignOut(1, StoredSession.id)
  \/ InitiateOAuthLogin(1, "google", "careseeker")
  \/ \E state \in 1..MaxStates : HandleOAuthCallback(1, "google", state, "careseeker")
  \/ CallbackSteps(1) /\ ProfileNamed(1) /\ ProfileIdIs(1, "g-1")
  \/ DeleteUser(1, StoredUser(TRUE).id)
  \/ ServiceDeleteUser(1, StoredUser(TRUE).id)
  \/ Commit(1)

SpecVerified == InitVerified /\ [][NextVerified]_vars

\* ------------------------------------------------ accounts
\* user a@x.com is verified, has a credentials account, with or without an
\* account of the provider identity g-1, a role and a forgot_password code
InitAccounts ==
  \E accounts \in {{CredentialsAccount}, {CredentialsAccount, ProviderAccount}} :
    InitWith(Stored({StoredUser(TRUE)}, accounts, {Membership(2)}, {}, {ResetCode}),
             {})

\* two requests at a time: callbacks in which the provider knows the caller
\* as a@x.com with the identity g-1 or g-2, resets of the password and
\* deletions of the user
NextAccounts ==
  \E p \in Procs :
    \/ InitiateOAuthLogin(p, "google", "careseeker")
    \/ \E state \in 1..MaxStates : HandleOAuthCallback(p, "google", state, "careseeker")
    \/ CallbackSteps(p) /\ ProfileEmailIs(p, "a@x.com") /\ ProfileNamed(p)
    \/ \E token \in 1..MaxCodes : ResetPassword(p, token, "Zyxwvu9#")
    \/ ResetSteps(p)
    \/ ServiceDeleteUser(p, StoredUser(TRUE).id)
    \/ DeleteUserCascade(p)
    \/ Commit(p)

SpecAccounts == InitAccounts /\ [][NextAccounts]_vars

\* ================================================= properties
\* process p takes the first step of a new request in this step
Started(p) ==
  /\ Free(p)
  /\ <<pc[p], req[p], resp[p]>> # <<pc'[p], req'[p], resp'[p]>>

\* the request of p has ended with the error status
Failed(p, status) == pc[p] = "done" /\ resp[p].status = status

UsesCode(r) == r.op \in {"verify_email", "reset_password"}

\* the rows of user u in the tables d
CredentialAccounts(d, u) ==
  {a \in d.account : a.user_id = u.id /\ a.provider_id = "credentials"}

VerifyCodes(d, u) ==
  {c \in d.verification_code : c.user_id = u.id /\ c.identifier = VERIFY_EMAIL}

\* C3: a sign_up whose email already belongs to a stored User ends with 409,
\* writes no row and sends no email.
C3_SignUpConflict ==
  [][\A p \in Procs :
       (Started(p) /\ req'[p].op = "sign_up"
          /\ \E u \in db.user : u.email = req'[p].email)
         => /\ pc'[p] = "done"
            /\ resp'[p].status = 409
            /\ txn'[p] = <<>>
            /\ db' = db
            /\ outbox' = outbox]_vars

\* a sign_up for a registered email has been answered 409
C3_Witness ==
  \E p \in Procs :
    /\ req[p].op = "sign_up"
    /\ Failed(p, 409)
    /\ \E u \in db.user : u.email = req[p].email

\* C15: a verify_email request that presents the token and the short code
\* of a stored verify_email code by its expiry succeeds, and when it has
\* completed the user owning the code has email_verified = TRUE and no
\* verify_email code is stored for that user.
C15_VerifyEmailPostcondition ==
  [][\A p \in Procs : \A c \in db.verification_code :
       (Started(p) /\ req'[p].op = "verify_email"
          /\ c.token = req'[p].token /\ c.identifier = VERIFY_EMAIL
          /\ c.value = req'[p].code /\ ~ (c.expires_at < now))
         => /\ ~ (pc'[p] = "done" /\ resp'[p].status # 200)
            /\ \E u \in ApplyAll(db', txn'[p]).user :
                 u.id = c.user_id /\ u.email_verified]_vars

\* C16: when a sign_up request for an email that no User had has ended, it
\* has succeeded, exactly one User has its email, that user is unverified,
\* has exactly one credentials Account, which holds a password hash, and
\* exactly one verify_email code, and no Session was added.
C16_SignUpPostcondition ==
  \A p \in Procs :
    (req[p].op = "sign_up" /\ pc[p] = "done" /\ resp[p].status # 409)
      => /\ resp[p].status = 201
         /\ Cardinality({u \in db.user : u.email = req[p].email}) = 1
         /\ \A u \in db.user :
              u.email = req[p].email
                => /\ ~ u.email_verified
                   /\ Cardinality(CredentialAccounts(db, u)) = 1
                   /\ \A a \in CredentialAccounts(db, u) : a.password # NoPassword
                   /\ Cardinality(VerifyCodes(db, u)) = 1
         /\ db.session = {}

\* C17: a forgot_password request for an email that no User has, or whose
\* User has no credentials Account, executes no statement and sends no
\* email in any of its steps, and ends with success once the user or the
\* user's accounts have been read.
C17_ForgotPasswordNoOp ==
  [][\A p \in Procs :
       ((Started(p) \/ pc[p] = "fp_account") /\ req'[p].op = "forgot_password"
          /\ \A u \in db.user :
               u.email = req'[p].email => CredentialAccounts(db, u) = {})
         => /\ pc'[p] \in {"fp_account", "done"}
            /\ pc[p] = "fp_account" => pc'[p] = "done"
            /\ pc'[p] = "done" => resp'[p].status = 200
            /\ txn'[p] = <<>>
            /\ db' = db
            /\ outbox' = outbox]_vars

\* a forgot_password for a user without a credentials account has returned
\* normally and the codes stored for the user are the ones that were
C17_Witness ==
  \E p \in Procs : \E u \in db.user :
    /\ req[p].op = "forgot_password"
    /\ pc[p] = "done" /\ resp[p].status = 200
    /\ u.email = req[p].email
    /\ CredentialAccounts(db, u) = {}
    /\ db.verification_code = {VerifyCode, ResetCode}
    /\ outbox = {}

\* C18: a resend_verification request for an email that no User has, or
\* whose User is already verified, ends in its first step with success,
\* changes no table and sends no email.
C18_ResendVerificationNoOp ==
  [][\A p \in Procs :
       (Started(p) /\ req'[p].op = "resend_verification"
          /\ \A u \in db.user : u.email = req'[p].email => u.email_verified)
         => /\ pc'[p] = "done"
            /\ resp'[p].status = 200
            /\ txn'[p] = <<>>
            /\ db' = db
            /\ outbox' = outbox]_vars

\* a resend_verification for a verified user has returned normally and the
\* verify_email code stored for the user is the one that was
C18_Witness ==
  \E p \in Procs : \E u \in db.user :
    /\ req[p].op = "resend_verification"
    /\ pc[p] = "done" /\ resp[p].status = 200
    /\ u.email = req[p].email
    /\ u.email_verified
    /\ VerifyCodes(db, u) = {VerifyCode}
    /\ outbox = {}

\* C19: the step of forgot_password that inserts the code and calls the
\* email sender always leaves the request on its way to a normal return,
\* with the code among its statements.
C19_EmailFailureNotSurfaced ==
  [][\A p \in Procs :
       (pc[p] = "fp_issue" /\ pc'[p] # pc[p])
         => (pc'[p] = "commit" /\ txn'[p] # <<>>)]_vars

\* C27: a verify_email request with the token of a forgot_password code,
\* and a reset_password request with the token of a verify_email code, end
\* with 400 in their first step and change no table.
C27_IntentMismatchIsBadRequest ==
  [][\A p \in Procs : \A c \in db.verification_code :
       (Started(p) /\ UsesCode(req'[p]) /\ c.token = req'[p].token
          /\ \/ req'[p].op = "verify_email" /\ c.identifier = FORGOT_PASSWORD
             \/ req'[p].op = "reset_password" /\ c.identifier = VERIFY_EMAIL)
         => /\ pc'[p] = "done"
            /\ resp'[p].status = 400
            /\ txn'[p] = <<>>
            /\ db' = db]_vars

\* a reset_password with the token of a stored verify_email code has been
\* answered 400
C27_Witness ==
  \E p \in Procs : \E c \in db.verification_code :
    /\ req[p].op = "reset_password"
    /\ Failed(p, 400)
    /\ c.token = req[p].token
    /\ c.identifier = VERIFY_EMAIL

\* the role names of the list roles that have no row in the role table of d
Unknown(d, roles) ==
  {roles[i] : i \in {j \in DOMAIN roles : ~ \E r \in d.role : r.name = roles[j]}}

\* C31: a sign_up for an unused email whose roles list names a role twice
\* succeeds, and the user then holds that role.
C31_RoleAssignmentIdempotent ==
  \A p \in Procs :
    (req[p].op = "sign_up" /\ pc[p] = "done" /\ resp[p].status # 409
       /\ \E i, j \in DOMAIN req[p].roles : i # j /\ req[p].roles[i] = req[p].roles[j])
      => /\ resp[p].status = 201
         /\ \A i \in DOMAIN req[p].roles : \A r \in db.role : \E u \in db.user :
              r.name = req[p].roles[i]
                => /\ u.email = req[p].email
                   /\ [user_id |-> u.id, role_id |-> r.id] \in db.user_to_role

\* C32: a sign_up for an unused email whose roles list names a role that
\* has no Role row ends with 404.
C32_UnknownRoleIsNotFound ==
  \A p \in Procs :
    (req[p].op = "sign_up" /\ pc[p] = "done" /\ resp[p].status # 409
       /\ Unknown(db, req[p].roles) # {})
      => resp[p].status = 404

\* C1: once a verify_email or reset_password request has succeeded with the
\* token of a verification code, every later verify_email or reset_password
\* request that presents this token ends with 404 and leaves the tables as
\* they are.
C1_ConsumedCodeIsGone ==
  [][\A p \in Procs :
       (Started(p) /\ UsesCode(req'[p]) /\ <<"code", req'[p].token>> \in spent)
         => /\ pc'[p] = "done"
            /\ resp'[p].status = 404
            /\ txn'[p] = <<>>
            /\ db' = db]_vars

\* a request that presented a consumed token has been answered 404
C1_Witness ==
  \E p \in Procs :
    /\ UsesCode(req[p])
    /\ <<"code", req[p].token>> \in spent
    /\ Failed(p, 404)

\* C2: in every reachable state the verification_code table holds at most
\* one row per (user, intent).
C2_OneCodePerUserAndIntent ==
  \A c1, c2 \in db.verification_code :
    (c1.user_id = c2.user_id /\ c1.identifier = c2.identifier) => c1 = c2

\* C10: of two verify_email requests, or two reset_password requests, that
\* present the same token only one succeeds.
C10_OneSuccessPerToken ==
  \A p, q \in Procs :
    (p # q /\ UsesCode(req[p]) /\ req[p].op = req[q].op
       /\ req[p].token = req[q].token)
      => ~ (pc[p] = "done" /\ resp[p].status = 200
            /\ pc[q] = "done" /\ resp[q].status = 200)

\* C14: a verify_email request for a stored verify_email code that presents
\* another short code, or is made after the code's expires_at, ends with 401
\* and changes no table; one that presents the stored short code by its
\* expires_at, also after such a failure, does not fail.
C14_FailedVerifyKeepsCode ==
  [][\A p \in Procs : \A c \in db.verification_code :
       (Started(p) /\ req'[p].op = "verify_email"
          /\ c.token = req'[p].token /\ c.identifier = VERIFY_EMAIL)
         => IF c.value # req'[p].code \/ c.expires_at < now
              THEN /\ pc'[p] = "done"
                   /\ resp'[p].status = 401
                   /\ txn'[p] = <<>>
                   /\ db' = db
              ELSE ~ (pc'[p] = "done" /\ resp'[p].status # 200)]_vars

\* C25: a reset_password request with the token of a forgot_password code
\* whose expires_at has passed ends with 400 and changes no table.
C25_ExpiredResetIsBadRequest ==
  [][\A p \in Procs : \A c \in db.verification_code :
       (Started(p) /\ req'[p].op = "reset_password"
          /\ c.token = req'[p].token /\ c.identifier = FORGOT_PASSWORD
          /\ c.expires_at < now)
         => /\ pc'[p] = "done"
            /\ resp'[p].status = 400
            /\ db' = db]_vars

\* C36: when a verify_email or reset_password request completes, every
\* verification code other than the one whose token it presented is
\* still stored.
C36_OnlyValidatedCodeDeleted ==
  [][\A p \in Procs :
       (pc[p] = "commit" /\ pc'[p] = "done" /\ UsesCode(req[p]))
         => \A c \in db.verification_code :
              c.token # req[p].token => c \in db'.verification_code]_vars

\* C5: every sign_in that is refused, for an unknown email as for a wrong
\* password, ends with the same error: 401 "Incorrect email or password".
C5_SignInFailuresAlike ==
  [][\A p \in Procs :
       (req'[p].op = "sign_in" /\ pc[p] \in {"idle", "done", "si_account"}
          /\ pc'[p] = "done"
          /\ <<pc[p], req[p], resp[p]>> # <<pc'[p], req'[p], resp'[p]>>)
         => (resp'[p].status = 401
             /\ resp'[p].detail = "Incorrect email or password")]_vars

\* C6: once a sign-out of session s has completed, a refresh_token request
\* with a well-signed, unexpired refresh token of s ends with 404, mints no
\* token and writes nothing.
C6_RefreshAfterSignOut ==
  [][\A p \in Procs :
       (Started(p) /\ req'[p].op = "refresh_token"
          /\ req'[p].jwt.sig = "HS256" /\ req'[p].jwt.type = "refresh"
          /\ now < req'[p].jwt.exp
          /\ <<"session", req'[p].jwt.sessionId>> \in spent)
         => /\ pc'[p] = "done"
            /\ resp'[p].status = 404
            /\ txn'[p] = <<>>
            /\ issued' = issued
            /\ db' = db]_vars

\* a refresh with a live token of a signed-out session has been answered 404
C6_Witness ==
  \E p \in Procs :
    /\ req[p].op = "refresh_token"
    /\ Failed(p, 404)
    /\ req[p].jwt \in issued
    /\ now < req[p].jwt.exp
    /\ <<"session", req[p].jwt.sessionId>> \in spent

\* C7: a refresh_token, sign-out or get-current-user request is let through
\* its token check only if the Session named in the token is stored and its
\* expires_at is not earlier than now.
C7_TokenNeedsLiveSession ==
  [][\A p \in Procs :
       (Started(p) /\ req'[p].op \in {"refresh_token", "sign_out", "get_me"}
          /\ ~ (pc'[p] = "done" /\ resp'[p].status # 200))
         => \E s \in db.session :
              s.id = req'[p].jwt.sessionId /\ ~ (s.expires_at < now)]_vars

\* C12: a refresh_token request that presents an access token ends in its
\* first step without success, mints no token and writes nothing; a
\* sign-out or get-current-user request that presents a refresh token ends
\* in its first step without success and writes nothing.
C12_TokenTypesNotInterchangeable ==
  [][\A p \in Procs :
       (Started(p)
          /\ \/ req'[p].op = "refresh_token" /\ req'[p].jwt.type = "access"
             \/ req'[p].op \in {"sign_out", "get_me"} /\ req'[p].jwt.type = "refresh")
         => /\ pc'[p] = "done"
            /\ resp'[p].status # 200
            /\ txn'[p] = <<>>
            /\ issued' = issued
            /\ db' = db]_vars

\* a refresh with a live access token of a stored session has been refused
C12_Witness ==
  \E p \in Procs :
    /\ req[p].op = "refresh_token"
    /\ req[p].jwt \in issued
    /\ req[p].jwt.type = "access"
    /\ now < req[p].jwt.exp
    /\ \E s \in db.session : s.id = req[p].jwt.sessionId
    /\ pc[p] = "done" /\ resp[p].status # 200

\* C13: a refresh_token request whose token has a bad signature, is expired
\* or has a type other than "refresh" ends with 401 and changes no table.
C13_RefreshDecodeFailureIs401 ==
  [][\A p \in Procs :
       (Started(p) /\ req'[p].op = "refresh_token"
          /\ \/ req'[p].jwt.sig # "HS256"
             \/ req'[p].jwt.exp <= now
             \/ req'[p].jwt.type # "refresh")
         => /\ pc'[p] = "done"
            /\ resp'[p].status = 401
            /\ db' = db]_vars

\* the Session rows that the pending statements ws add to the tables d
NewSessions(d, ws) == ApplyAll(d, ws).session \ d.session

\* C20: a sign_in with the password of the user's credentials Account is
\* not refused, whether the user is verified or not, and its step that
\* creates the session inserts one Session of that user that expires
\* SESSION_EXPIRE_DAYS after the insert and goes on to mint the tokens.
C20_SignInCreatesSession ==
  [][\A p \in Procs : \A u \in db.user :
       (req'[p].op = "sign_in" /\ u.email = req'[p].email)
         => /\ (pc[p] = "si_account" /\ pc'[p] # pc[p]
                  /\ \E a \in CredentialAccounts(db, u) :
                       /\ a.password.alg = "argon2id"
                       /\ a.password.pw = req'[p].password)
                 => pc'[p] = "create_session"
            /\ (pc[p] = "create_session" /\ pc'[p] # pc[p])
                 => /\ pc'[p] = "mint"
                    /\ \E s \in NewSessions(db, txn'[p]) :
                         /\ NewSessions(db, txn'[p]) = {s}
                         /\ s.user_id = u.id
                         /\ s.expires_at = now + SESSION_EXPIRE_DAYS * MinutesPerDay]_vars

C22_RefreshKeepsSession ==
  [][\A p \in Procs :
       /\ (pc[p] = "rt_extend" /\ pc'[p] # pc[p])
            => /\ pc'[p] = "rt_mint"
               /\ {s.id : s \in ApplyAll(db, txn'[p]).session} = {s.id : s \in db.session}
               /\ \A s \in ApplyAll(db, txn'[p]).session :
                    IF s.id = req[p].jwt.sessionId
                      THEN s.expires_at = now + SESSION_EXPIRE_DAYS * MinutesPerDay
                      ELSE s \in db.session
       /\ (pc[p] = "commit" /\ pc'[p] = "done" /\ req[p].op = "refresh_token")
            => /\ resp'[p].status = 200
               /\ {s.id : s \in db'.session} = {s.id : s \in db.session}
               /\ resp'[p].body.access_token.type = "access"
               /\ resp'[p].body.access_token.sessionId = req[p].jwt.sessionId
               /\ resp'[p].body.refresh_token.type = "refresh"
               /\ resp'[p].body.refresh_token.sessionId = req[p].jwt.sessionId]_vars

\* a refresh has succeeded after time has passed and the session of its
\* token expires a session lifetime after a later instant than its creation
C22_Witness ==
  \E p \in Procs : \E s \in db.session :
    /\ req[p].op = "refresh_token"
    /\ pc[p] = "done" /\ resp[p].status = 200
    /\ s.id = req[p].jwt.sessionId
    /\ s.id = resp[p].body.refresh_token.sessionId
    /\ s.expires_at + REFRESH_TOKEN_EXPIRE_DAYS * MinutesPerDay
         > req[p].jwt.exp + SESSION_EXPIRE_DAYS * MinutesPerDay

\* the names of the roles that user_id holds in the tables d
RoleNames(d, user_id) ==
  {r.name : r \in {x \in d.role :
                     \E m \in d.user_to_role :
                       m.user_id = user_id /\ m.role_id = x.id}}

\* C23: when a request completes with tokens, the access token it returns
\* carries exactly the role names its subject holds in user_to_role; and an
\* issued refresh token has no roles claim.
C23_AccessTokenCarriesCurrentRoles ==
  [][/\ \A p \in Procs :
          (pc[p] = "commit" /\ pc'[p] = "done"
             /\ req[p].op \in {"sign_in", "handle_oauth_callback", "refresh_token"})
            => /\ resp'[p].status = 200
               /\ resp'[p].body.access_token.roles
                    = RoleNames(db', resp'[p].body.access_token.sub)
     /\ \A t \in issued' : t.type = "refresh" => "roles" \notin DOMAIN t]_vars

\* a refresh has returned an access token with the roles the user holds,
\* which are not the roles of the access token that came with the session
C23_Witness ==
  \E p \in Procs :
    /\ req[p].op = "refresh_token"
    /\ pc[p] = "done" /\ resp[p].status = 200
    /\ resp[p].body.access_token.roles # {}
    /\ resp[p].body.access_token.roles = RoleNames(db, resp[p].body.access_token.sub)
    /\ StoredAccessToken \in issued
    /\ StoredAccessToken.roles # resp[p].body.access_token.roles

\* C24: when AuthService.sign_out completes it has succeeded, the Sessions
\* are the ones from before without the Session it names, and no other
\* table has changed; for a session id that is not stored nothing changes.
C24_SignOutDeletesOneSession ==
  [][\A p \in Procs :
       (pc[p] = "commit" /\ pc'[p] = "done" /\ req[p].op = "service_sign_out")
         => /\ resp'[p].status = 200
            /\ db'.session = {s \in db.session : s.id # req[p].session_id}
            /\ db'.user = db.user
            /\ db'.account = db.account
            /\ db'.user_to_role = db.user_to_role
            /\ db'.verification_code = db.verification_code]_vars

\* a sign-out has returned normally, the session it names is not stored
\* and the other session of the user is
C24_Witness ==
  \E p \in Procs :
    /\ req[p].op = "service_sign_out"
    /\ pc[p] = "done" /\ resp[p].status = 200
    /\ <<"session", req[p].session_id>> \in spent
    /\ ~ \E s \in db.session : s.id = req[p].session_id
    /\ db.session # {}

\* C35: a refresh_token request with an issued refresh token that has not
\* reached its exp and whose Session is stored gets past its checks, and
\* the guard of get-current-user accepts such an access token while the
\* Session has not expired, however many tokens were minted for that
\* Session since; and no step takes a token back.
C35_TokensNotRevoked ==
  [][/\ \A p \in Procs : \A s \in db.session :
          (Started(p) /\ req'[p].op \in {"refresh_token", "get_me"}
             /\ req'[p].jwt \in issued
             /\ now < req'[p].jwt.exp
             /\ s.id = req'[p].jwt.sessionId)
            => /\ (req'[p].op = "refresh_token" /\ req'[p].jwt.type = "refresh")
                    => pc'[p] = "rt_extend"
               /\ (req'[p].op = "get_me" /\ req'[p].jwt.type = "access"
                     /\ ~ (s.expires_at < now))
                    => pc'[p] = "gm_user"
     /\ issued \subseteq issued']_vars

\* a refresh has succeeded with the refresh token that came with the
\* session after a refresh at an earlier instant had minted another one
C35_Witness ==
  \E p \in Procs : \E t \in issued :
    /\ req[p].op = "refresh_token"
    /\ pc[p] = "done" /\ resp[p].status = 200
    /\ t.type = "refresh"
    /\ t.sessionId = req[p].jwt.sessionId
    /\ req[p].jwt.exp < t.exp
    /\ t.exp < resp[p].body.refresh_token.exp

\* C37: a refresh_token request that comes to extend its Session when the
\* Session is no longer stored ends without success and mints no token.
C37_RefreshFailsWithoutSession ==
  [][\A p \in Procs :
       (pc[p] = "rt_extend" /\ pc'[p] # pc[p]
          /\ ~ \E s \in db.session : s.id = req[p].jwt.sessionId)
         => (pc'[p] = "done" /\ resp'[p].status # 200)]_vars

\* C8: a callback whose state was never stored, was accepted by an earlier
\* callback, or has outlived its lifetime in the cache ends with 400 in its
\* first step, before the provider is called, and writes nothing.
C8_BadStateRejected ==
  [][\A p \in Procs :
       (Started(p) /\ req'[p].op = "handle_oauth_callback"
          /\ \/ req'[p].state >= nextId.state
             \/ <<"state", req'[p].state>> \in spent
             \/ \E e \in cache : e.key = req'[p].state /\ e.expires <= now)
         => /\ pc'[p] = "done"
            /\ resp'[p].status = 400
            /\ txn'[p] = <<>>
            /\ db' = db]_vars

\* a callback with a state that an earlier callback used has been answered 400
C8_Witness ==
  \E p \in Procs :
    /\ req[p].op = "handle_oauth_callback"
    /\ req[p].provider = "google"
    /\ Failed(p, 400)
    /\ <<"state", req[p].state>> \in spent

\* the callback of p got past the state validation
PassedState(p) ==
  /\ req[p].op = "handle_oauth_callback"
  /\ pc[p] # "idle"
  /\ ~ Failed(p, 400)

\* C9: of two callbacks that present the same state at most one gets past
\* the state validation.
C9_OneCallbackPerState ==
  \A p, q \in Procs :
    (p # q /\ PassedState(p) /\ PassedState(q)) => req[p].state # req[q].state

\* C11: no two User rows have the same email. A request that found no user
\* with its email and whose INSERT of the User then meets a stored User with
\* that email ends in that step with 500, and that step changes no table and
\* no uncommitted row of another request; a sign_up, alone or alongside a
\* callback for the same email, ends in its first step with 409 or 500 and
\* changes no table and no uncommitted row either.
C11_OneUserPerEmail ==
  [][/\ \A u1, u2 \in db'.user : u1.email = u2.email => u1 = u2
     /\ \A p \in Procs :
          /\ (pc[p] = "oc_create_user" /\ pc'[p] # pc[p]
                /\ get_user_by_email(db, loc[p].email) # {})
               => /\ pc'[p] = "done" /\ resp'[p].status = 500
                  /\ db' = db
                  /\ \A q \in Procs \ {p} : txn'[q] = txn[q] /\ pc'[q] = pc[q]
          /\ (Started(p) /\ req'[p].op = "sign_up")
               => /\ pc'[p] = "done" /\ resp'[p].status \in {409, 500}
                  /\ db' = db /\ nextId' = nextId
                  /\ \A q \in Procs \ {p} : txn'[q] = txn[q] /\ pc'[q] = pc[q]]_vars

\* of two callbacks of a new user that both found no user with the email
\* of the profile, the INSERT of one has been rejected, and the other has
\* committed the only User with that email and holds the uncommitted
\* Account and role membership of that User
C11_Witness ==
  \E p, q \in Procs : \E u \in db.user :
    /\ p # q
    /\ req[p].op = "handle_oauth_callback" /\ req[q].op = "handle_oauth_callback"
    /\ Failed(p, 500)
    /\ <<"email", u.email>> \in spent
    /\ pc[q] = "create_session"
    /\ loc[q].user_id = u.id
    /\ db.user = {u}
    /\ \E a \in View(q).account \ db.account :
         a.user_id = u.id /\ a.provider_id = "google"
    /\ \E m \in View(q).user_to_role \ db.user_to_role : m.user_id = u.id

\* C28: the step after a callback has found its state in the cache removes
\* the key, before the provider is called; a key that a callback has found
\* is never in the cache again, however that callback ends; and a later
\* callback with that state does not succeed.
C28_StateRedeemedOnce ==
  [][/\ \A p \in Procs :
          (pc[p] = "oc_delete_state" /\ pc'[p] # pc[p])
            => /\ pc'[p] = "oc_provider"
               /\ ~ \E e \in cache' : e.key = req[p].state
     /\ \A e \in cache' : <<"state", e.key>> \notin spent'
     /\ \A p \in Procs :
          (Started(p) /\ req'[p].op = "handle_oauth_callback"
             /\ <<"state", req'[p].state>> \in spent)
            => (pc'[p] = "done" /\ resp'[p].status # 200)]_vars

\* a callback has passed the state validation and failed at the provider,
\* and its state is not in the cache
C28_Witness ==
  \E p \in Procs :
    /\ req[p].op = "handle_oauth_callback"
    /\ pc[p] = "done" /\ resp[p].status \in {401, 503}
    /\ <<"state", req[p].state>> \in spent
    /\ ~ \E e \in cache : e.key = req[p].state

\* C29: the step of a callback that calls the provider ends the request
\* with 401 when the provider answers the code exchange or the profile
\* request with an HTTP error and with 503 when the provider cannot be
\* reached, and in each case no table has changed and nothing is left to
\* commit.
C29_ProviderFailure ==
  [][\A p \in Procs :
       (pc[p] = "oc_provider" /\ pc'[p] # pc[p]
          /\ req'[p].answer \in {"exchange_http_error", "profile_http_error",
                                 "exchange_unreachable", "profile_unreachable"})
         => /\ pc'[p] = "done"
            /\ resp'[p].status
                 = (IF req'[p].answer \in {"exchange_http_error", "profile_http_error"}
                      THEN 401 ELSE 503)
            /\ resp'[p].detail
                 = (CASE req'[p].answer = "exchange_http_error" ->
                           "Failed to authenticate with provider"
                      [] req'[p].answer = "profile_http_error" ->
                           "Failed to fetch user information"
                      [] OTHER -> "Failed to connect to authentication provider")
            /\ txn[p] = <<>>
            /\ txn'[p] = <<>>
            /\ db' = db]_vars

\* a callback has ended with 503 and a user registered before is stored
C29_Witness ==
  \E p \in Procs :
    /\ req[p].op = "handle_oauth_callback"
    /\ req[p].answer \in {"exchange_unreachable", "profile_unreachable"}
    /\ Failed(p, 503)
    /\ db.user # {}

\* C30: among the stored Accounts no user has two with the same provider
\* id; every credentials Account holds a password hash and no Account of a
\* provider holds one.
C30_AccountInvariants ==
  /\ \A a1, a2 \in db.account :
       (a1.user_id = a2.user_id /\ a1.provider_id = a2.provider_id) => a1 = a2
  /\ \A a \in db.account :
       (a.provider_id = "credentials") <=> (a.password # NoPassword)

\* the user has the Account of the provider identity g-1 and the credentials
\* Account with the hash of the password of a committed reset, and two
\* callbacks with another identity of that provider and the email of the
\* user have both inserted an Account and have both ended
C30_Witness ==
  \E u \in db.user :
    /\ \A p \in Procs :
         /\ req[p].op = "handle_oauth_callback"
         /\ req[p].answer = "profile"
         /\ Failed(p, 500)
    /\ \E a \in CredentialAccounts(db, u) : a.password = Hash("Zyxwvu9#")
    /\ ProviderAccount \in db.account
    /\ ProviderAccount.user_id = u.id
    /\ nextId.account = MaxId(db.account) + 3

\* the Accounts of the tables d for the identity that the provider
\* returned to the callback of p
ProviderAccounts(d, p) ==
  {a \in d.account : a.account_id = loc[p].id /\ a.provider_id = req[p].provider}

Ids(rows) == {r.id : r \in rows}

\* C33: a callback with the profile of the provider goes on with the
\* Account of the provider identity if there is one, else with the User of
\* the profile email if there is one, else with a new User.  With the
\* Account it stores the provider's token in it and adds no User and no
\* Account; with the User it adds one Account of the provider identity for
\* that User and sets the User's email_verified; else it adds one User with
\* the profile email and email_verified set and one Account of the provider
\* identity for the new User.  Every such callback then adds one Session,
\* of the User it went on with, and returns the tokens of that Session.
C33_OAuthIdentityResolution ==
  [][\A p \in Procs :
       /\ (pc[p] = "oc_resolve" /\ pc'[p] # pc[p])
            => /\ db' = db
               /\ IF ProviderAccounts(db, p) # {}
                    THEN /\ pc'[p] = "oc_update"
                         /\ \A a \in ProviderAccounts(db, p) : loc'[p].user_id = a.user_id
                    ELSE pc'[p] = "oc_user"
       /\ (pc[p] = "oc_user" /\ pc'[p] # pc[p])
            => /\ db' = db
               /\ IF \E u \in db.user : u.email = loc[p].email
                    THEN /\ pc'[p] = "oc_link"
                         /\ \A u \in db.user :
                              u.email = loc[p].email => loc'[p].user_id = u.id
                    ELSE pc'[p] = "oc_create_user"
       /\ (pc[p] = "oc_update" /\ pc'[p] # pc[p])
            => /\ pc'[p] = "create_session"
               /\ db'.user = db.user
               /\ Ids(ApplyAll(db', txn'[p]).account) = Ids(db.account)
               /\ \A a \in ApplyAll(db', txn'[p]).account :
                    IF a.id \in Ids(ProviderAccounts(db, p))
                      THEN a.access_token = "provider-token" /\ a.user_id = loc[p].user_id
                      ELSE a \in db.account
       /\ (pc[p] = "oc_link" /\ pc'[p] # pc[p])
            => /\ pc'[p] = "create_session"
               /\ Ids(db'.user) = Ids(db.user)
               /\ \A u \in db'.user : u.id = loc[p].user_id => u.email_verified
               /\ \E a \in ApplyAll(db', txn'[p]).account \ db.account :
                    /\ ApplyAll(db', txn'[p]).account \ db.account = {a}
                    /\ a.user_id = loc[p].user_id
                    /\ a.account_id = loc[p].id
                    /\ a.provider_id = req[p].provider
       /\ (pc[p] = "oc_create_user" /\ pc'[p] # pc[p])
            => /\ pc'[p] = "cu_commit"
               /\ db' = db
       /\ (pc[p] = "cu_commit" /\ pc'[p] # pc[p]
             /\ req[p].op = "handle_oauth_callback")
            => /\ pc'[p] = "oc_create_account"
               /\ db'.account = db.account
               /\ db.user \subseteq db'.user
               /\ \E u \in db'.user \ db.user :
                    /\ db'.user \ db.user = {u}
                    /\ u.email = loc[p].email
                    /\ u.email_verified
                    /\ loc'[p].user_id = u.id
       /\ (pc[p] = "oc_create_account" /\ pc'[p] # pc[p])
            => /\ pc'[p] = "oc_role"
               /\ db'.user = db.user
               /\ \E a \in ApplyAll(db, txn'[p]).account \ db.account :
                    /\ ApplyAll(db, txn'[p]).account \ db.account = {a}
                    /\ a.user_id = loc[p].user_id
                    /\ a.account_id = loc[p].id
                    /\ a.provider_id = req[p].provider
       /\ (pc[p] \in {"oc_role", "oc_assign"} /\ pc'[p] # pc[p])
            => /\ pc'[p] \in {"oc_assign", "create_session"}
               /\ db' = db
       /\ (pc[p] = "create_session" /\ pc'[p] # pc[p]
             /\ req[p].op = "handle_oauth_callback")
            => /\ pc'[p] = "mint"
               /\ \E s \in NewSessions(db, txn'[p]) :
                    /\ NewSessions(db, txn'[p]) = {s}
                    /\ s.user_id = loc[p].user_id]_vars

\* C34: the role that a callback gives to the User it has created is the
\* role named in the initiate_oauth_login request that was answered with
\* the state of the callback.
C34_RoleOfInitiate ==
  [][\A p, q \in Procs :
       (pc[p] = "oc_assign" /\ pc'[p] = "create_session"
          /\ req[q].op = "initiate_oauth_login"
          /\ resp[q].body.kind = "url"
          /\ resp[q].body.state = req[p].state)
         => \A m \in ApplyAll(db, txn'[p]).user_to_role :
              m.user_id = loc[p].user_id
                => \E r \in db.role : r.id = m.role_id /\ r.name = req[q].role]_vars

\* C26: when a reset_password request for the code c of user u completes,
\* it has succeeded, u has no forgot_password code and the credentials
\* Account of u holds the hash of the new password; and a sign_in of a
\* user with a credentials Account ends with 401 if the password is not the
\* one whose hash the Account holds, and else opens a session and goes on
\* to mint the tokens.
C26_ResetThenSignIn ==
  [][\A p \in Procs :
       /\ \A c \in db.verification_code :
            (pc[p] = "commit" /\ pc'[p] = "done" /\ req[p].op = "reset_password"
               /\ c.token = req[p].token)
              => /\ resp'[p].status = 200
                 /\ ~ \E c2 \in db'.verification_code :
                        c2.user_id = c.user_id /\ c2.identifier = FORGOT_PASSWORD
                 /\ \E a \in db'.account :
                      /\ a.user_id = c.user_id /\ a.provider_id = "credentials"
                      /\ a.password.alg = "argon2id"
                      /\ a.password.pw = req[p].password
       /\ \A u \in db.user : \A a \in CredentialAccounts(db, u) :
            (pc[p] = "si_account" /\ pc'[p] # pc[p] /\ u.id = loc[p].user_id)
              => IF a.password.alg = "argon2id" /\ a.password.pw = req[p].password
                   THEN pc'[p] = "create_session"
                   ELSE pc'[p] = "done" /\ resp'[p].status = 401
       /\ (pc[p] = "create_session" /\ pc'[p] # pc[p] /\ req[p].op = "sign_in")
            => pc'[p] = "mint"]_vars

\* C38: no step of a forgot_password or reset_password request changes
\* the session table or leaves a statement on it to commit; and a
\* refresh_token request with an issued refresh token whose Session is
\* stored gets past its checks and completes with success, also after a
\* password reset of the Session's user.
C38_ResetKeepsSessions ==
  [][\A p \in Procs :
       /\ (req'[p].op \in {"forgot_password", "reset_password"}
             /\ (Started(p) \/ pc'[p] # pc[p]))
            => /\ db'.session = db.session
               /\ ApplyAll(db', txn'[p]).session = db.session
       /\ (Started(p) /\ req'[p].op = "refresh_token"
             /\ req'[p].jwt.type = "refresh"
             /\ \E s \in db.session : s.id = req'[p].jwt.sessionId)
            => pc'[p] = "rt_extend"
       /\ (pc[p] = "commit" /\ pc'[p] = "done" /\ req[p].op = "refresh_token")
            => resp'[p].status = 200]_vars

\* a refresh has succeeded with the refresh token the client held before
\* the password of the Session's user was reset, and both Sessions of the
\* user are stored
C38_Witness ==
  \E p \in Procs : \E c \in {ResetCode} : \E a \in db.account :
    /\ req[p].op = "refresh_token"
    /\ req[p].jwt = StoredRefreshToken
    /\ pc[p] = "done" /\ resp[p].status = 200
    /\ <<"code", c.token>> \in spent
    /\ a.user_id = req[p].jwt.sub /\ a.provider_id = "credentials"
    /\ a.password = Hash("Zyxwvu9#")
    /\ {s.id : s \in db.session} = {StoredSession.id, OtherSession.id}

\* C39: no step clears the email_verified of a User that has it set, in
\* the tables and in the statements left to commit: after every step the
\* row of such a User, as long as it is stored, still has it set.
C39_EmailVerifiedMonotonic ==
  [][\A u \in db.user :
       u.email_verified
         => /\ \A v \in db'.user : v.id = u.id => v.email_verified
            /\ \A p \in Procs :
                 \A v \in ApplyAll(db', txn'[p]).user :
                   v.id = u.id => v.email_verified]_vars

\* a verified user has reset the password, and a callback with the
\* identity of the user's provider account has since ended; the user is
\* still verified
C39_Witness ==
  \E p \in Procs : \E u \in db.user : \E a, b \in db.account :
    /\ req[p].op = "handle_oauth_callback"
    /\ req[p].answer = "profile"
    /\ pc[p] = "done"
    /\ u.email_verified
    /\ <<"code", ResetCode.token>> \in spent
    /\ a.user_id = u.id /\ a.provider_id = "credentials" /\ a.password = Hash("Zyxwvu9#")
    /\ b.user_id = u.id /\ b.provider_id = "google"

====
